---- MODULE Spec2Model ----
(***************************************************************************)
(* The lobby orchestrator of Game_Store (src/server/main_server.py):       *)
(* MainServer's session maps, room directory, match registry and port      *)
(* counter, the per-connection worker threads of handle_client, and the    *)
(* reaper thread of every spawned match process.                           *)
(*                                                                         *)
(* One action is one step a thread takes without another thread being able *)
(* to interfere: a whole `with lock:` block, or one unlocked read or write *)
(* of a shared dictionary.  join_room, login and logout touch the shared   *)
(* dictionaries outside any lock, so they are split at every shared        *)
(* access; leave_room is split inside its critical section because         *)
(* join_room does not take room_lock and can run in the middle of it.      *)
(***************************************************************************)
EXTENDS Integers, Sequences, FiniteSets, TLC

(***************************************************************************)
(* Bounds of the model.                                                    *)
(***************************************************************************)
\* Rooms created in all (room ids are never reused): under DirectorySpec,
\* RoomSpec and FairSpec, and under StartSpec and Spec.
RoomSpecRooms == 1
MaxRooms == 2
\* Matches started in all (ports are never reused).
MaxMatches == 2
\* The bytes of a chunk: 65536 in the program (line 14), scaled down so that
\* a message of a few bytes spans several chunks.
CHUNK_SIZE == 3
\* Messages and malformed frames a peer writes in all.
MaxWritten == 2
\* Requests a client sends in all, and messages the lobby writes to it.
MaxCalls == 3
MaxLobbyMessages == 3

(***************************************************************************)
(* Program constants and the inputs requests are drawn from.               *)
(***************************************************************************)
GAME_PORT_BASE == 44848
\* send_request's timeout, in seconds.
TIMEOUT == 5

Conns == {1, 2}
Names == {"a", "b", "c"}
Roles == {"Player", "Developer"}
Passwords == {1, 2}
Ports == GAME_PORT_BASE..(GAME_PORT_BASE + MaxMatches - 1)
None == "None"
NoGame == "NoGame"
Free == 0

\* games/<name>/<version>/game_config.json of the installed games.
Configs ==
    [Duel |-> [min_players |-> 2, max_players |-> 2],
     Imposter |-> [min_players |-> 3, max_players |-> 3]]
Games == DOMAIN Configs

\* hashlib.sha256(password).hexdigest(): an injective digest of the
\* passwords of the model.
Sha256(p) == (p * 37 + 11) % 101

\* The datastore's Player and Developer collections (one document per
\* registered identity).
Collections ==
    [Player |-> {[userName |-> "a", passwordHash |-> Sha256(1)],
                 [userName |-> "b", passwordHash |-> Sha256(2)]},
     Developer |-> {[userName |-> "a", passwordHash |-> Sha256(1)]}]

\* A query that ignores its filter.
DBQuery_First(collection, name) == <<CHOOSE d \in Collections[collection] : TRUE>>

\* Database.query with the filter {"userName": name}: the matching
\* documents, as a list.
DBQuery(collection, name) ==
    LET hits == {d \in Collections[collection] : d.userName = name}
    IN  IF hits = {} THEN <<>> ELSE <<CHOOSE d \in hits : TRUE>>

VARIABLES
    online_players,     \* self.online_players: name -> connection
    online_developers,  \* self.online_developers: name -> connection
    next_room_id,       \* self.next_room_id
    rooms,              \* self.rooms: room id -> room
    room_lock,          \* self.room_lock: Free, or the worker inside leave_room
    next_game_port,     \* self.next_game_port
    games,              \* self.games: room id -> match entry
    procs,              \* spawned match processes and their reaper threads, by port
    pc,                 \* where each connection's worker thread is
    req,                \* the request each worker is handling
    resp,               \* the response its handler returned
    current_user,       \* handle_client's local current_user
    game_port,          \* start_game's local game_port
    notify_members,     \* notify_room_members' local copy of the member list
    pushes,             \* the GAME_STARTING messages written to each connection
    allocated,          \* history: the ports start_game has taken, in order
    racing,             \* history: the workers whose START_GAME calls race
    wire,               \* the bytes the peer of connection WireConn has written
                        \* and its worker has not read
    shut,               \* that peer has closed its end of the stream
    written,            \* history: what that peer has written, in order
    got,                \* history: what recv_message has returned or raised
    pending_requests,   \* the client's self.pending_requests: id -> reply
    connected,          \* the client's self.connected
    call,               \* the client's send_request calls, by calling thread
    next_uuid,          \* the correlation ids the client has generated
    lobby_out,          \* the messages on their way from the lobby to the client
    lobby_sent,         \* how many messages the lobby has written to the client
    returns,            \* history: the replies send_request has returned
    message_queue,      \* the client's self.message_queue
    push_read,          \* how many of the pushes written to its connection
                        \* the client's receiver has read
    joined,             \* history: the game servers join_game has connected to
    sock,               \* per connection, the sendall calls the lobby has made
                        \* on its socket and the peer has not read yet
    sending             \* per worker, the sendall calls it has still to make

vars == <<online_players, online_developers, next_room_id, rooms, room_lock,
          next_game_port, games, procs, pc, req, resp, current_user,
          game_port, notify_members, pushes, allocated, racing,
          wire, shut, written, got,
          pending_requests, connected, call, next_uuid, lobby_out, lobby_sent,
          returns, message_queue, push_read, joined, sock, sending>>

sessionVars == <<online_players, online_developers>>
roomVars == <<next_room_id, rooms, room_lock>>
matchVars == <<next_game_port, games, procs, allocated>>
localVars == <<current_user, game_port, notify_members>>
wireVars == <<wire, shut, written, got>>
clientVars == <<pending_requests, connected, call, next_uuid, lobby_out,
                lobby_sent, returns>>
queueVars == <<message_queue, push_read, joined>>
sockVars == <<sock, sending>>
\* What lies outside the lobby's process.
peerVars == <<wireVars, clientVars, queueVars, sockVars>>

(***************************************************************************)
(* Dictionaries and lists.                                                 *)
(***************************************************************************)
\* dict.get(key): None when the key is absent.
Get(d, k) == IF k \in DOMAIN d THEN d[k] ELSE None

\* d[k] = v
Put(d, k, v) == [x \in DOMAIN d \cup {k} |-> IF x = k THEN v ELSE d[x]]

\* del d[k]
Del(d, k) == [x \in DOMAIN d \ {k} |-> d[x]]

\* x in list
In(x, s) == \E i \in 1..Len(s) : s[i] = x

\* list.remove(x): the list without the first occurrence of x.
ListRemove(s, x) ==
    LET i == CHOOSE j \in 1..Len(s) : s[j] = x /\ \A k \in 1..(j - 1) : s[k] # x
    IN  SubSeq(s, 1, i - 1) \o SubSeq(s, i + 1, Len(s))

NoRequest ==
    [action |-> None, name |-> None, role |-> None, password |-> 0,
     roomId |-> 0, game |-> NoGame]
NoResponse == [none |-> TRUE]
Error(msg) == [success |-> FALSE, error |-> msg]

\* The threads of a client that call send_request, and a thread that is
\* not inside a call.
Callers == {1, 2}
Idle == [pc |-> "idle", id |-> 0, waited |-> 0, result |-> NoResponse]

Init ==
    /\ online_players = <<>>
    /\ online_developers = <<>>
    /\ next_room_id = 1
    /\ rooms = <<>>
    /\ room_lock = Free
    /\ next_game_port = GAME_PORT_BASE
    /\ games = <<>>
    /\ procs = <<>>
    /\ pc = [c \in Conns |-> "recv"]
    /\ req = [c \in Conns |-> NoRequest]
    /\ resp = [c \in Conns |-> NoResponse]
    /\ current_user = [c \in Conns |-> None]
    /\ game_port = [c \in Conns |-> 0]
    /\ notify_members = [c \in Conns |-> <<>>]
    /\ pushes = [c \in Conns |-> <<>>]
    /\ allocated = <<>>
    /\ racing = {}
    /\ wire = <<>>
    /\ shut = FALSE
    /\ written = <<>>
    /\ got = <<>>
    /\ pending_requests = <<>>
    /\ connected = TRUE
    /\ call = [t \in Callers |-> Idle]
    /\ next_uuid = 1
    /\ lobby_out = <<>>
    /\ lobby_sent = 0
    /\ returns = <<>>
    /\ message_queue = <<>>
    /\ push_read = 0
    /\ joined = <<>>
    /\ sock = [c \in Conns |-> <<>>]
    /\ sending = [c \in Conns |-> <<>>]

(***************************************************************************)
(* handle_client: the serving loop of one connection.                      *)
(***************************************************************************)
\* The requests a client can send.  `name` is the request's name, player,
\* player_name or room_info.host field; `game` stands for its game_name and
\* version fields (NoGame: a game that is not installed).
SessionRequests(names) ==
    [action : {"LOGIN"}, name : names, role : Roles, password : Passwords,
     roomId : {0}, game : {NoGame}]
    \cup [action : {"LOGOUT"}, name : names, role : Roles, password : {0},
          roomId : {0}, game : {NoGame}]

RegisterRequests(names) ==
    [action : {"REGISTER"}, name : names, role : Roles, password : Passwords,
     roomId : {0}, game : {NoGame}]

DirectoryRequests(ids, names, titles) ==
    [action : {"CREATE_ROOM"}, name : names, role : {None}, password : {0},
     roomId : {0}, game : titles]
    \cup [action : {"JOIN_ROOM", "LEAVE_ROOM"}, name : names, role : {None},
          password : {0}, roomId : ids, game : {NoGame}]

StartGameRequests(ids, names, titles) ==
    [action : {"START_GAME"}, name : names, role : {None}, password : {0},
     roomId : ids, game : titles]

RoomRequests(ids, names, titles) ==
    DirectoryRequests(ids, names, titles) \cup StartGameRequests(ids, names, titles)

Requests ==
    SessionRequests(Names)
    \cup RegisterRequests(Names)
    \cup RoomRequests(1..MaxRooms, Names, Games \cup {NoGame})

\* process_request's dispatch on the action: the handler's first step.
Handler(action) ==
    CASE action = "REGISTER" -> "register"
      [] action = "LOGIN" -> "login"
      [] action = "LOGOUT" -> "logout"
      [] action = "CREATE_ROOM" -> "create_room"
      [] action = "JOIN_ROOM" -> "join_room"
      [] action = "LEAVE_ROOM" -> "leave_room"
      [] action = "START_GAME" -> "start_game"

InFlight(label) == Cardinality({c \in Conns : pc[c] = label})

\* The counters are unbounded in the program; the model stops taking the
\* requests that would move them past its bounds.
WithinBounds(r, maxRooms) ==
    /\ r.action = "CREATE_ROOM" /\ r.game # NoGame
         => next_room_id + InFlight("create_room") <= maxRooms
    /\ r.action = "START_GAME"
         => next_game_port + InFlight("start_game") < GAME_PORT_BASE + MaxMatches

\* A handler returns `r`: the worker goes on to send it.
Return(c, r) ==
    /\ pc' = [pc EXCEPT ![c] = "reply"]
    /\ resp' = [resp EXCEPT ![c] = r]

Goto(c, label) ==
    /\ pc' = [pc EXCEPT ![c] = label]
    /\ UNCHANGED resp

\* The finally block of handle_client: the sessions left once the worker of
\* connection c has ended.
FinallyPlayers(c) ==
    IF current_user[c] # None /\ current_user[c] \in DOMAIN online_players
    THEN Del(online_players, current_user[c])
    ELSE online_players

FinallyDevelopers(c) ==
    IF current_user[c] # None /\ current_user[c] \in DOMAIN online_developers
    THEN Del(online_developers, current_user[c])
    ELSE online_developers

\* An exception leaves the handler and the serving loop: the finally block
\* runs and the socket is closed, without a reply.
Raise(c) ==
    /\ pc' = [pc EXCEPT ![c] = "closed"]
    /\ online_players' = FinallyPlayers(c)
    /\ online_developers' = FinallyDevelopers(c)
    /\ UNCHANGED resp

\* History: the START_GAME request r that worker c receives races with the
\* call of worker d when d has not made its tests yet and both are the
\* host's, on the same idle room with enough members.
Races(c, r, d) ==
    /\ d # c
    /\ r.action = "START_GAME"
    /\ pc[d] = "start_game"
    /\ req[d].roomId = r.roomId
    /\ r.roomId \in DOMAIN rooms
    /\ rooms[r.roomId].status = "idle"
    /\ Len(rooms[r.roomId].members) >= rooms[r.roomId].room_min
    /\ r.name = rooms[r.roomId].host
    /\ req[d].name = rooms[r.roomId].host

\* recv_message returns a request of `requests` and process_request
\* dispatches it.
RecvFrom(c, requests, maxRooms) ==
    /\ pc[c] = "recv"
    /\ \E r \in requests :
         /\ WithinBounds(r, maxRooms)
         /\ req' = [req EXCEPT ![c] = r]
         /\ pc' = [pc EXCEPT ![c] = Handler(r.action)]
         /\ racing' = IF \E d \in Conns : Races(c, r, d)
                       THEN {c} \cup {d \in Conns : Races(c, r, d)}
                       ELSE racing
    /\ UNCHANGED <<peerVars, sessionVars, roomVars, matchVars, localVars, resp, pushes>>

Recv(c) == RecvFrom(c, Requests, MaxRooms)

\* recv_message returns None (the peer closed the connection): the loop
\* ends and the finally block runs.
Disconnect(c) ==
    /\ pc[c] = "recv"
    /\ Raise(c)
    /\ UNCHANGED <<peerVars, roomVars, matchVars, localVars, req, pushes, racing>>

\* The user name handle_client reads from a LOGIN's response.
LoginUser(response) == Get(response, "userName")

\* The worker records the user of a LOGIN and sends the response; the
\* handler's locals are gone.
Reply(c) ==
    /\ pc[c] = "reply"
    /\ current_user' = [current_user EXCEPT ![c] =
                          IF req[c].action = "LOGIN" THEN LoginUser(resp[c]) ELSE @]
    /\ pc' = [pc EXCEPT ![c] = "recv"]
    /\ req' = [req EXCEPT ![c] = NoRequest]
    /\ resp' = [resp EXCEPT ![c] = NoResponse]
    /\ game_port' = [game_port EXCEPT ![c] = 0]
    /\ racing' = racing \ {c}
    /\ UNCHANGED <<peerVars, sessionVars, roomVars, matchVars, notify_members, pushes>>

(***************************************************************************)
(* register, login and logout.                                             *)
(***************************************************************************)
\* register queries the role's collection for the name and tests
\* existing[0]: indexing the empty list of a name that is not registered
\* raises IndexError, and the document of a registered name is truthy.
\* The CREATE request after the test is never reached.
Register(c) ==
    /\ pc[c] = "register"
    /\ LET existing == DBQuery(req[c].role, req[c].name)
       IN  IF existing = <<>>
           THEN Raise(c)
           ELSE Return(c, Error("Username already registered"))
                /\ UNCHANGED sessionVars
    /\ UNCHANGED <<peerVars, roomVars, matchVars, localVars, req, pushes, racing>>

\* login's first test, made for either role.
AlreadyOnline(name, role) == name \in DOMAIN online_players

Login1(c) ==
    /\ pc[c] = "login"
    /\ IF AlreadyOnline(req[c].name, req[c].role)
       THEN Return(c, Error("User already online"))
       ELSE Goto(c, "login_query")
    /\ UNCHANGED <<peerVars, sessionVars, roomVars, matchVars, localVars, req, pushes, racing>>

\* The datastore query and the password test.
Login2(c) ==
    /\ pc[c] = "login_query"
    /\ LET user == DBQuery(req[c].role, req[c].name)
       IN  IF user = <<>>
           THEN Return(c, Error("User not found"))
           ELSE IF user[1].passwordHash # Sha256(req[c].password)
           THEN Return(c, Error("Invalid password"))
           ELSE Goto(c, "login_insert")
    /\ UNCHANGED <<peerVars, sessionVars, roomVars, matchVars, localVars, req, pushes, racing>>

\* The session is inserted under the role's lock.
Login3(c) ==
    /\ pc[c] = "login_insert"
    /\ online_players' = IF req[c].role = "Player"
                         THEN Put(online_players, req[c].name, c)
                         ELSE online_players
    /\ online_developers' = IF req[c].role = "Developer"
                            THEN Put(online_developers, req[c].name, c)
                            ELSE online_developers
    /\ Return(c, [success |-> TRUE, data |-> DBQuery(req[c].role, req[c].name)])
    /\ UNCHANGED <<peerVars, roomVars, matchVars, localVars, req, pushes, racing>>

RoleMap(role) == IF role = "Player" THEN online_players ELSE online_developers

\* logout's test self.online_players[name]: a KeyError when name is absent.
Logout1(c) ==
    /\ pc[c] = "logout"
    /\ IF req[c].name \in DOMAIN RoleMap(req[c].role)
       THEN Goto(c, "logout_del") /\ UNCHANGED sessionVars
       ELSE Raise(c)
    /\ UNCHANGED <<peerVars, roomVars, matchVars, localVars, req, pushes, racing>>

\* del self.online_players[name] under the role's lock.
Logout2(c) ==
    /\ pc[c] = "logout_del"
    /\ IF req[c].name \in DOMAIN RoleMap(req[c].role)
       THEN /\ online_players' = IF req[c].role = "Player"
                                 THEN Del(online_players, req[c].name)
                                 ELSE online_players
            /\ online_developers' = IF req[c].role = "Developer"
                                    THEN Del(online_developers, req[c].name)
                                    ELSE online_developers
            /\ Return(c, [success |-> TRUE])
       ELSE Raise(c)
    /\ UNCHANGED <<peerVars, roomVars, matchVars, localVars, req, pushes, racing>>


(***************************************************************************)
(* The room directory: create_room, join_room, leave_room.                 *)
(***************************************************************************)
\* The room create_room stores.
NewRoom(host, game) ==
    [host |-> host,
     game |-> game,
     members |-> <<host>>,
     room_max |-> Configs[game].max_players,
     room_min |-> Configs[game].min_players,
     status |-> "idle"]

\* A counter that create_room leaves as it was.
RoomCounterAfter_Same(counter) == counter

\* self.next_room_id += 1
RoomCounterAfter(counter) == counter + 1

\* Opening the game's game_config.json fails for a game that is not
\* installed; otherwise the room is stored under room_lock.
CreateRoom(c) ==
    /\ pc[c] = "create_room"
    /\ IF req[c].game \notin Games
       THEN Raise(c) /\ UNCHANGED roomVars
       ELSE /\ room_lock = Free
            /\ rooms' = Put(rooms, next_room_id, NewRoom(req[c].name, req[c].game))
            /\ next_room_id' = RoomCounterAfter(next_room_id)
            /\ Return(c, [success |-> TRUE, roomId |-> next_room_id])
            /\ UNCHANGED <<sessionVars, room_lock>>
    /\ UNCHANGED <<peerVars, matchVars, localVars, req, pushes, racing>>

\* A capacity test that lets one member more in.
RoomIsFull_Over(room) == Len(room.members) > room.room_max

\* join_room's capacity test.
RoomIsFull(room) == Len(room.members) >= room.room_max

\* join_room reads the room without room_lock: the capacity test.
Join1(c) ==
    /\ pc[c] = "join_room"
    /\ IF req[c].roomId \notin DOMAIN rooms
       THEN Raise(c)
       ELSE /\ IF RoomIsFull(rooms[req[c].roomId])
               THEN Return(c, Error("Room is full"))
               ELSE Goto(c, "join_member")
            /\ UNCHANGED sessionVars
    /\ UNCHANGED <<peerVars, roomVars, matchVars, localVars, req, pushes, racing>>

\* The membership test.
Join2(c) ==
    /\ pc[c] = "join_member"
    /\ IF req[c].roomId \notin DOMAIN rooms
       THEN Raise(c)
       ELSE /\ IF In(req[c].name, rooms[req[c].roomId].members)
               THEN Return(c, [success |-> TRUE, message |-> "Joined room"])
               ELSE Goto(c, "join_append")
            /\ UNCHANGED sessionVars
    /\ UNCHANGED <<peerVars, roomVars, matchVars, localVars, req, pushes, racing>>

\* The append.
Join3(c) ==
    /\ pc[c] = "join_append"
    /\ IF req[c].roomId \notin DOMAIN rooms
       THEN Raise(c) /\ UNCHANGED rooms
       ELSE /\ rooms' = [rooms EXCEPT ![req[c].roomId].members =
                           Append(@, req[c].name)]
            /\ Return(c, [success |-> TRUE, message |-> "Joined room"])
            /\ UNCHANGED sessionVars
    /\ UNCHANGED <<peerVars, next_room_id, room_lock, matchVars, localVars, req, pushes, racing>>

\* leave_room takes room_lock and removes the player from the member list.
Leave1(c) ==
    /\ pc[c] = "leave_room"
    /\ room_lock = Free
    /\ LET rid == req[c].roomId
       IN  IF rid \notin DOMAIN rooms
           THEN Return(c, Error("Room not found")) /\ UNCHANGED <<rooms, room_lock>>
           ELSE IF In(req[c].name, rooms[rid].members)
           THEN /\ rooms' = [rooms EXCEPT ![rid].members = ListRemove(@, req[c].name)]
                /\ room_lock' = c
                /\ Goto(c, "leave_fix")
           ELSE Return(c, [success |-> TRUE, message |-> "Left room"])
                /\ UNCHANGED <<rooms, room_lock>>
    /\ UNCHANGED <<peerVars, sessionVars, next_room_id, matchVars, localVars, req, pushes, racing>>

\* Promotion of the member who joined last.
Promote_Last(room) == room.members[Len(room.members)]

\* The host of a room its host has left.
Promote(room) == room.members[1]

\* leave_room without the deletion of an emptied room.
AfterRemoval_KeepEmpty(rs, rid, name) ==
    IF Len(rs[rid].members) = 0
    THEN rs
    ELSE IF name = rs[rid].host
    THEN [rs EXCEPT ![rid].host = rs[rid].members[1]]
    ELSE rs

\* leave_room without the replacement of a host who left.
AfterRemoval_KeepHost(rs, rid, name) ==
    IF Len(rs[rid].members) = 0 THEN Del(rs, rid) ELSE rs

\* What leave_room does with the room after the removal.
AfterRemoval(rs, rid, name) ==
    IF Len(rs[rid].members) = 0
    THEN Del(rs, rid)
    ELSE IF name = rs[rid].host
    THEN [rs EXCEPT ![rid].host = Promote(rs[rid])]
    ELSE rs

\* Still under room_lock: the emptied room is deleted, or the host replaced.
Leave2(c) ==
    /\ pc[c] = "leave_fix"
    /\ rooms' = AfterRemoval(rooms, req[c].roomId, req[c].name)
    /\ room_lock' = Free
    /\ Return(c, [success |-> TRUE, message |-> "Left room"])
    /\ UNCHANGED <<peerVars, sessionVars, next_room_id, matchVars, localVars, req, pushes, racing>>


(***************************************************************************)
(* The match launcher: start_game, notify_room_members and the reaper.     *)
(***************************************************************************)
\* f"Need at least {room['room_min']} players to start\n"
NeedAtLeast(n) == "Need at least " \o ToString(n) \o " players to start\n"

\* start_game without the test of the room's status.
StartError_NoStatusTest(room, name) ==
    IF name # room.host THEN "Only host can start the game\n"
    ELSE IF Len(room.members) < room.room_min THEN NeedAtLeast(room.room_min)
    ELSE None

\* start_game without the test of the member count.
StartError_NoMemberTest(room, name) ==
    IF name # room.host THEN "Only host can start the game\n"
    ELSE IF room.status = "playing" THEN "Game is starting, please wait"
    ELSE None

\* start_game with the test of the host made last.
StartError_HostTestLast(room, name) ==
    IF Len(room.members) < room.room_min THEN NeedAtLeast(room.room_min)
    ELSE IF room.status = "playing" THEN "Game is starting, please wait"
    ELSE IF name # room.host THEN "Only host can start the game\n"
    ELSE None

\* start_game's tests, in the order it makes them: the error it returns,
\* or None when the room may start.
StartError(room, name) ==
    IF name # room.host THEN "Only host can start the game\n"
    ELSE IF Len(room.members) < room.room_min THEN NeedAtLeast(room.room_min)
    ELSE IF room.status = "playing" THEN "Game is starting, please wait"
    ELSE None

\* The port start_game takes and the counter it leaves.
TakenPort(counter) == counter

\* A counter that start_game leaves as it was.
PortCounterAfter_Same(counter) == counter

PortCounterAfter(counter) == counter + 1

\* Under room_lock: the tests, the port and the status, in one block.
Start1(c) ==
    /\ pc[c] = "start_game"
    /\ room_lock = Free
    /\ LET rid == req[c].roomId
       IN  IF rid \notin DOMAIN rooms
           THEN Raise(c) /\ UNCHANGED <<rooms, next_game_port, game_port, allocated>>
           ELSE IF StartError(rooms[rid], req[c].name) # None
           THEN /\ Return(c, Error(StartError(rooms[rid], req[c].name)))
                /\ UNCHANGED <<sessionVars, rooms, next_game_port, game_port,
                               allocated>>
           ELSE /\ game_port' = [game_port EXCEPT ![c] = TakenPort(next_game_port)]
                /\ allocated' = Append(allocated, TakenPort(next_game_port))
                /\ next_game_port' = PortCounterAfter(next_game_port)
                /\ rooms' = [rooms EXCEPT ![rid].status = "playing"]
                /\ Goto(c, "start_spawn")
                /\ UNCHANGED sessionVars
    /\ UNCHANGED <<peerVars, next_room_id, room_lock, games, procs, current_user,
                   notify_members, req, pushes, racing>>

\* start_game's local `room` is a reference to the room's dictionary: it
\* reads the member list as it is now, and the emptied list of a room that
\* has been deleted since.
RoomMembers(rid) == IF rid \in DOMAIN rooms THEN rooms[rid].members ELSE <<>>

\* game_path / "game_server.py": the program of the game whose name and
\* version are given.
GameServer(title) == title

\* subprocess.Popen with cwd = the directory of the request's game: it
\* raises when that directory does not exist.
Start2(c) ==
    /\ pc[c] = "start_spawn"
    /\ IF req[c].game \notin Games
       THEN Goto(c, "start_failed") /\ UNCHANGED procs
       ELSE /\ procs' = Put(procs, game_port[c],
                            [room |-> req[c].roomId,
                             program |-> GameServer(req[c].game),
                             players |-> Len(RoomMembers(req[c].roomId)),
                             state |-> "running",
                             reaper |-> "unstarted"])
            /\ Goto(c, "start_register")
    /\ UNCHANGED <<peerVars, sessionVars, roomVars, next_game_port, games, allocated,
                   localVars, req, pushes, racing>>

\* A Match entry that records the port counter.
MatchEntry_Counter(port, rid) == [port |-> next_game_port, members |-> rid]

\* The Match entry start_game stores (its process is procs[port]).  Its
\* 'members' is room["members"]: not a copy but a reference to the list
\* object of the room, which the entry names by the room's id.
MatchEntry(port, rid) == [port |-> port, members |-> rid]

\* What the roster of the Match entry of room rid reads as: the list its
\* 'members' refers to, as join_room and leave_room have left it.
Roster(rid) == RoomMembers(games[rid].members)

\* The Match entry is stored under game_lock and the reaper thread started.
Start3(c) ==
    /\ pc[c] = "start_register"
    /\ games' = Put(games, req[c].roomId, MatchEntry(game_port[c], req[c].roomId))
    /\ procs' = [procs EXCEPT ![game_port[c]].reaper = "waiting"]
    /\ Goto(c, "start_notify")
    /\ UNCHANGED <<peerVars, sessionVars, roomVars, next_game_port, allocated, localVars,
                   req, pushes, racing>>

\* notify_room_members copies the member list under room_lock; it returns
\* at once when the room is gone.
Start4(c) ==
    /\ pc[c] = "start_notify"
    /\ room_lock = Free
    /\ IF req[c].roomId \notin DOMAIN rooms
       THEN /\ Return(c, [success |-> TRUE, gamePort |-> game_port[c]])
            /\ UNCHANGED notify_members
       ELSE /\ notify_members' = [notify_members EXCEPT ![c] =
                                    rooms[req[c].roomId].members]
            /\ Goto(c, "start_push")
    /\ UNCHANGED <<peerVars, sessionVars, roomVars, matchVars, current_user, game_port,
                   req, pushes, racing>>

\* The loop of notify_room_members: the message is written to the socket
\* of every listed member that has a Player session; a member without one,
\* or with a closed socket, raises inside the loop's try and is skipped.
RECURSIVE Notified(_, _, _)
Notified(members, message, out) ==
    IF members = <<>> THEN out
    ELSE LET m == Head(members)
             sent == m \in DOMAIN online_players
                     /\ pc[online_players[m]] # "closed"
         IN  Notified(Tail(members), message,
                      IF sent
                      THEN [out EXCEPT ![online_players[m]] = Append(@, message)]
                      ELSE out)

\* The message start_game hands to notify_room_members (its gameHost is
\* the same in every message).
GameStarting(starter, port, rid) ==
    [action |-> "GAME_STARTING", gameStarter |-> starter, gamePort |-> port,
     roomId |-> rid]

\* Under player_lock: the pushes; then start_game returns its reply.
Start5(c) ==
    /\ pc[c] = "start_push"
    /\ pushes' = Notified(notify_members[c],
                           GameStarting(req[c].name, game_port[c], req[c].roomId),
                           pushes)
    /\ notify_members' = [notify_members EXCEPT ![c] = <<>>]
    /\ Return(c, [success |-> TRUE, gamePort |-> game_port[c]])
    /\ UNCHANGED <<peerVars, sessionVars, roomVars, matchVars, current_user, game_port, req,
                   racing>>

\* The except branch of start_game: the room, if it still exists, is set
\* back to idle under room_lock and the failure reported (the reply's text
\* of the exception is left out).
StartFailed(c) ==
    /\ pc[c] = "start_failed"
    /\ room_lock = Free
    /\ rooms' = IF req[c].roomId \in DOMAIN rooms
                THEN [rooms EXCEPT ![req[c].roomId].status = "idle"]
                ELSE rooms
    /\ Return(c, Error("Failed to start game server"))
    /\ UNCHANGED <<peerVars, sessionVars, next_room_id, room_lock, matchVars, localVars,
                   req, pushes, racing>>

\* A match process ends, with any exit code.
ProcessExit(p) ==
    /\ p \in DOMAIN procs
    /\ procs[p].state = "running"
    /\ \E code \in {0, 1} :
         procs' = [procs EXCEPT ![p].state = IF code = 0 THEN "exited" ELSE "crashed"]
    /\ UNCHANGED <<peerVars, sessionVars, roomVars, next_game_port, games, allocated, pc,
                   req, resp, localVars, pushes, racing>>

\* A cleanup_game that leaves the Match entry.
GamesAfterCleanup_Keep(rid) == games

\* cleanup_game's first block, under game_lock.
GamesAfterCleanup(rid) == IF rid \in DOMAIN games THEN Del(games, rid) ELSE games

\* A cleanup_game that leaves the room's status.
RoomsAfterCleanup_NoReset(rid) == rooms

\* cleanup_game's second block, under room_lock.
RoomsAfterCleanup(rid) ==
    IF rid \in DOMAIN rooms THEN [rooms EXCEPT ![rid].status = "idle"] ELSE rooms

\* wait_for_game_end: process.wait() has returned and cleanup_game removes
\* the Match entry.
Reap1(p) ==
    /\ p \in DOMAIN procs
    /\ procs[p].reaper = "waiting"
    /\ procs[p].state # "running"
    /\ games' = GamesAfterCleanup(procs[p].room)
    /\ procs' = [procs EXCEPT ![p].reaper = "cleanup_room"]
    /\ UNCHANGED <<peerVars, sessionVars, roomVars, next_game_port, allocated, pc, req,
                   resp, localVars, pushes, racing>>

\* cleanup_game resets the room; the reaper thread ends.
Reap2(p) ==
    /\ p \in DOMAIN procs
    /\ procs[p].reaper = "cleanup_room"
    /\ room_lock = Free
    /\ rooms' = RoomsAfterCleanup(procs[p].room)
    /\ procs' = Del(procs, p)
    /\ UNCHANGED <<peerVars, sessionVars, next_room_id, room_lock, next_game_port, games,
                   allocated, pc, req, resp, localVars, pushes, racing>>

(***************************************************************************)
(* The wire: send_message, recv_message and recv_exact, and the worker of  *)
(* one connection reading the bytes its peer wrote.                        *)
(***************************************************************************)
\* The connection whose stream is modelled byte by byte.
WireConn == 1

\* The values a peer sends, named by their Python literal (None is JSON's
\* null), and json.dumps(v).encode('utf-8') of each.
JsonValues == {None, "0", "7", "[0]", "{}", "{'a': 0}"}

JsonDumps(v) ==
    CASE v = None -> <<110, 117, 108, 108>>
      [] v = "0" -> <<48>>
      [] v = "7" -> <<55>>
      [] v = "[0]" -> <<91, 48, 93>>
      [] v = "{}" -> <<123, 125>>
      [] v = "{'a': 0}" -> <<123, 34, 97, 34, 58, 32, 48, 125>>

\* json.loads(data.decode('utf-8')) succeeds on the text of a value.
Decodable(data) == \E v \in JsonValues : JsonDumps(v) = data
JsonLoads(data) == CHOOSE v \in JsonValues : JsonDumps(v) = data

\* bool(v) and isinstance(v, dict).
Truthy(v) == v \notin {None, "0", "{}"}
IsObject(v) == v \in {"{}", "{'a': 0}"}

\* struct.pack('!I', n) and struct.unpack('!I', b)[0]: four bytes, most
\* significant first.
Pack(n) ==
    <<(n \div 16777216) % 256, (n \div 65536) % 256, (n \div 256) % 256, n % 256>>
Unpack(b) == b[1] * 16777216 + b[2] * 65536 + b[3] * 256 + b[4]

\* A sender that puts all the remaining bytes in one chunk.
ChunkLength_Whole(remaining) == remaining

\* send_message's chunk_length = min(CHUNK_SIZE, remaining).
ChunkLength(remaining) == IF remaining < CHUNK_SIZE THEN remaining ELSE CHUNK_SIZE

\* The loop of send_message: a length prefix and the bytes of every chunk.
RECURSIVE SendChunks(_)
SendChunks(data) ==
    IF data = <<>> THEN <<>>
    ELSE LET n == ChunkLength(Len(data))
         IN  Pack(n) \o SubSeq(data, 1, n)
               \o SendChunks(SubSeq(data, n + 1, Len(data)))

\* The bytes send_message(v) writes: the chunks and the end marker.
SendMessage(v) == SendChunks(JsonDumps(v)) \o Pack(0)

\* A recv_exact that raises when the peer has closed the stream.
AtEof_Raise == [kind |-> "raise", value |-> "ValueError", rest |-> <<>>]

\* recv_exact finds the stream closed before it has its n bytes and returns
\* None, and recv_message returns None.
AtEof == [kind |-> "return", value |-> None, rest |-> <<>>]

\* recv_exact waits for bytes of a stream that is still open.
Blocked == [kind |-> "blocked", value |-> None, rest |-> <<>>]

\* A recv_message without the test of the declared length.
TooLong_Never(n) == FALSE

\* recv_message's test of a chunk's declared length.
TooLong(n) == n > CHUNK_SIZE

\* The loop of recv_message on the unread bytes `stream`, with the bytes of
\* the chunks read so far: what it returns or raises, and the bytes it
\* leaves unread.
RECURSIVE RecvChunks(_, _, _)
RecvChunks(stream, closed, chunks) ==
    IF Len(stream) < 4
    THEN IF closed THEN AtEof ELSE Blocked
    ELSE LET n == Unpack(SubSeq(stream, 1, 4))
             body == SubSeq(stream, 5, Len(stream))
         IN  IF n = 0
             THEN IF Decodable(chunks)
                  THEN [kind |-> "return", value |-> JsonLoads(chunks), rest |-> body]
                  ELSE [kind |-> "raise", value |-> "JSONDecodeError", rest |-> body]
             ELSE IF TooLong(n)
             THEN [kind |-> "raise", value |-> "ValueError", rest |-> body]
             ELSE IF Len(body) < n
             THEN IF closed THEN AtEof ELSE Blocked
             ELSE RecvChunks(SubSeq(body, n + 1, Len(body)), closed,
                             chunks \o SubSeq(body, 1, n))

RecvMessage(stream, closed) == RecvChunks(stream, closed, <<>>)

\* The peer writes a message.
PeerSend(v) ==
    /\ pc[WireConn] # "closed"
    /\ ~shut
    /\ Len(written) < MaxWritten
    /\ wire' = wire \o SendMessage(v)
    /\ written' = Append(written, v)
    /\ UNCHANGED <<clientVars, queueVars, sockVars, sessionVars, roomVars, matchVars, localVars, pc, req, resp,
                   pushes, racing, shut, got>>

\* The declared lengths of the malformed frames (the second has the
\* prefix 7F FF FF FF), the chunk that may come before one in its message,
\* and the body bytes that follow its prefix.
Oversized == {CHUNK_SIZE + 1, 2147483647}
Leads == {<<>>, Pack(1) \o <<48>>}
OversizedBody == [i \in 1..(CHUNK_SIZE + 1) |-> 48]

\* The peer writes a frame that declares more than CHUNK_SIZE bytes.
PeerSendOversized(lead, n) ==
    /\ pc[WireConn] # "closed"
    /\ ~shut
    /\ Len(written) < MaxWritten
    /\ wire' = wire \o lead \o Pack(n) \o OversizedBody
    /\ written' = Append(written, "Oversized")
    /\ UNCHANGED <<clientVars, queueVars, sockVars, sessionVars, roomVars, matchVars, localVars, pc, req, resp,
                   pushes, racing, shut, got>>

\* The peer's end closes when only the first n of the unread bytes have
\* arrived.
PeerClose(n) ==
    /\ pc[WireConn] # "closed"
    /\ ~shut
    /\ n \in 0..Len(wire)
    /\ wire' = SubSeq(wire, 1, n)
    /\ shut' = TRUE
    /\ UNCHANGED <<clientVars, queueVars, sockVars, sessionVars, roomVars, matchVars, localVars, pc, req, resp,
                   pushes, racing, written, got>>

\* process_request's reply to a request without a known action.
UnknownAction == [status |-> "error", message |-> "Unknown action"]

\* handle_client on the stream: recv_message returns or raises.  A raise
\* ends the worker, and so does a value that is not truthy (`if not
\* request: break`); request.get raises on a value that is no object; an
\* object without an action is answered as unknown.
WireRecv(c) ==
    /\ c = WireConn
    /\ pc[c] = "recv"
    /\ LET r == RecvMessage(wire, shut)
       IN  /\ r.kind # "blocked"
           /\ wire' = r.rest
           /\ got' = Append(got, r.value)
           /\ IF r.kind = "raise" \/ ~Truthy(r.value) \/ ~IsObject(r.value)
              THEN Raise(c)
              ELSE Return(c, UnknownAction) /\ UNCHANGED sessionVars
    /\ UNCHANGED <<clientVars, queueVars, sockVars, roomVars, matchVars, localVars, req, pushes, racing, shut,
                   written>>

(***************************************************************************)
(* The client: PlayerClient.send_request and receive_lobby_messages        *)
(* (DeveloperClient has the same send_request).                            *)
(***************************************************************************)
\* str(uuid.uuid4()): an id no earlier call has had.
Uuid4 == next_uuid

\* The return value of a call that has waited in vain.
RequestTimeout == [success |-> FALSE, error |-> "Request timeout"]

\* send_request generates the id and send_message writes the frame; the
\* thread enters the polling loop.
SendRequest(t) ==
    /\ call[t].pc = "idle"
    /\ next_uuid <= MaxCalls
    /\ call' = [call EXCEPT ![t] = [pc |-> "polling", id |-> Uuid4, waited |-> 0,
                                     result |-> NoResponse]]
    /\ next_uuid' = next_uuid + 1
    /\ UNCHANGED <<sessionVars, roomVars, matchVars, localVars, pc, req, resp,
                   pushes, racing, wireVars, queueVars, sockVars, pending_requests, connected,
                   lobby_out, lobby_sent, returns>>

\* send_message raises on a socket that is gone: the except branch returns
\* the error as a value.
SendRequestFails(t) ==
    /\ call[t].pc = "idle"
    /\ next_uuid <= MaxCalls
    /\ ~connected
    /\ call' = [call EXCEPT ![t] = [pc |-> "returned", id |-> Uuid4, waited |-> 0,
                                     result |-> [success |-> FALSE, error |-> "OSError"]]]
    /\ next_uuid' = next_uuid + 1
    /\ UNCHANGED <<sessionVars, roomVars, matchVars, localVars, pc, req, resp,
                   pushes, racing, wireVars, queueVars, sockVars, pending_requests, connected,
                   lobby_out, lobby_sent, returns>>

\* A polling loop that takes whatever reply is pending.
Claimed_Any(id) == DOMAIN pending_requests

\* `if request_id in self.pending_requests`: the entries a poll takes.
Claimed(id) == IF id \in DOMAIN pending_requests THEN {id} ELSE {}

\* A loop that gives up at once.
Expired_AtOnce(waited) == TRUE

\* The loop condition `time.time() - start_time < timeout` is false.
Expired(waited) == waited >= TIMEOUT

\* One turn of the polling loop that finds the reply, under request_lock:
\* the entry is popped and returned.
Poll(t) ==
    /\ call[t].pc = "polling"
    /\ ~Expired(call[t].waited)
    /\ \E k \in Claimed(call[t].id) :
         /\ call' = [call EXCEPT ![t].pc = "returned",
                                 ![t].result = pending_requests[k]]
         /\ pending_requests' = Del(pending_requests, k)
         /\ returns' = Append(returns, [call |-> call[t].id,
                                        reply |-> pending_requests[k].requestId])
    /\ UNCHANGED <<sessionVars, roomVars, matchVars, localVars, pc, req, resp,
                   pushes, racing, wireVars, queueVars, sockVars, connected, next_uuid, lobby_out,
                   lobby_sent>>

\* A second passes while the thread polls and sleeps.
Tick(t) ==
    /\ call[t].pc = "polling"
    /\ ~Expired(call[t].waited)
    /\ call' = [call EXCEPT ![t].waited = @ + 1]
    /\ UNCHANGED <<sessionVars, roomVars, matchVars, localVars, pc, req, resp,
                   pushes, racing, wireVars, queueVars, sockVars, pending_requests, connected,
                   next_uuid, lobby_out, lobby_sent, returns>>

\* The loop ends and send_request returns the timeout value.
TimeOut(t) ==
    /\ call[t].pc = "polling"
    /\ Expired(call[t].waited)
    /\ call' = [call EXCEPT ![t].pc = "returned", ![t].result = RequestTimeout]
    /\ UNCHANGED <<sessionVars, roomVars, matchVars, localVars, pc, req, resp,
                   pushes, racing, wireVars, queueVars, sockVars, pending_requests, connected,
                   next_uuid, lobby_out, lobby_sent, returns>>

\* The caller has the return value and the thread is free for a next call.
Returned(t) ==
    /\ call[t].pc = "returned"
    /\ call' = [call EXCEPT ![t] = Idle]
    /\ UNCHANGED <<sessionVars, roomVars, matchVars, localVars, pc, req, resp,
                   pushes, racing, wireVars, queueVars, sockVars, pending_requests, connected,
                   next_uuid, lobby_out, lobby_sent, returns>>

\* The connection of the client whose message queue is modelled, and the
\* userName of its self.player.
ClientConn == 2
userName == "b"

\* The messages the lobby writes to a client: the reply to a request,
\* carrying the request's requestId, and GAME_STARTING, which carries
\* none, of a match started by another player or by the client's own.
LobbyMessages ==
    [requestId : 1..MaxCalls, success : {TRUE}]
    \cup {GameStarting(starter, GAME_PORT_BASE, 1) : starter \in {"a", userName}}

\* The receiver's test of a message: GAME_STARTING of another player's
\* start goes to the message queue.
Queued(msg) ==
    Get(msg, "action") = "GAME_STARTING" /\ Get(msg, "gameStarter") # userName

\* The lobby answers a request it has been sent (a second time, too), or
\* pushes GAME_STARTING.
LobbyWrites(m) ==
    /\ lobby_sent < MaxLobbyMessages
    /\ "requestId" \in DOMAIN m => m.requestId < next_uuid
    /\ lobby_out' = Append(lobby_out, m)
    /\ lobby_sent' = lobby_sent + 1
    /\ UNCHANGED <<sessionVars, roomVars, matchVars, localVars, pc, req, resp,
                   pushes, racing, wireVars, queueVars, sockVars, pending_requests, connected, call,
                   next_uuid, returns>>

\* receive_lobby_messages reads a message: GAME_STARTING of another
\* player's start is put on the message queue; any other message is
\* stored in pending_requests under request_lock when it has a requestId,
\* and is dropped when it has none.
Receive ==
    /\ connected
    /\ lobby_out # <<>>
    /\ LET msg == Head(lobby_out)
       IN  IF Queued(msg)
           THEN /\ message_queue' = Append(message_queue, msg)
                /\ UNCHANGED pending_requests
           ELSE /\ pending_requests' = IF "requestId" \in DOMAIN msg
                                       THEN Put(pending_requests, msg.requestId, msg)
                                       ELSE pending_requests
                /\ UNCHANGED message_queue
    /\ lobby_out' = Tail(lobby_out)
    /\ UNCHANGED <<sessionVars, roomVars, matchVars, localVars, pc, req, resp,
                   pushes, racing, wireVars, push_read, joined, sockVars, connected, call,
                   next_uuid, lobby_sent, returns>>

\* The receiver thread ends: the lobby closed the connection, or handling
\* a message raised.
ReceiverEnds ==
    /\ connected
    /\ connected' = FALSE
    /\ UNCHANGED <<sessionVars, roomVars, matchVars, localVars, pc, req, resp,
                   pushes, racing, wireVars, queueVars, sockVars, pending_requests, call, next_uuid,
                   lobby_out, lobby_sent, returns>>

(***************************************************************************)
(* The locks of the lobby: player_lock, developer_lock, room_lock and      *)
(* game_lock.  Every `with` block of a handler is one step, or two for     *)
(* leave_room, so a thread holds a lock between steps only inside          *)
(* leave_room, and inside notify_room_members where its loop is modelled   *)
(* one sendall at a time.                                                  *)
(***************************************************************************)
\* The lock of a role's session map.
RoleLock(role) == IF role = "Player" THEN "player_lock" ELSE "developer_lock"

\* A login that sends its query under the role's lock.
Holds_QueryUnderLock(c) ==
    IF pc[c] = "leave_fix" THEN {"room_lock"}
    ELSE IF pc[c] = "start_send" THEN {"player_lock"}
    ELSE IF pc[c] = "login_query" THEN {RoleLock(req[c].role)}
    ELSE {}

\* A notify_room_members that keeps room_lock while it pushes.
Holds_PushUnderRoomLock(c) ==
    IF pc[c] \in {"leave_fix", "start_push"} THEN {"room_lock"}
    ELSE IF pc[c] = "start_send" THEN {"player_lock"}
    ELSE {}

\* The locks worker c holds where it is.
Holds(c) ==
    IF pc[c] = "leave_fix" THEN {"room_lock"}
    ELSE IF pc[c] = "start_send" THEN {"player_lock"}
    ELSE {}

\* The lock the `with` statement takes that worker c is about to enter.
Takes(c) ==
    CASE pc[c] \in {"login_insert", "logout_del"} -> {RoleLock(req[c].role)}
      [] pc[c] = "create_room" /\ req[c].game \in Games -> {"room_lock"}
      [] pc[c] \in {"leave_room", "start_game", "start_notify", "start_failed"}
           -> {"room_lock"}
      [] pc[c] = "start_register" -> {"game_lock"}
      [] pc[c] = "start_push" -> {"player_lock"}
      [] OTHER -> {}

\* The lock the reaper thread of port p is about to take; it holds none.
ReaperTakes(p) ==
    CASE procs[p].reaper = "waiting" -> {"game_lock"}
      [] procs[p].reaper = "cleanup_room" -> {"room_lock"}
      [] OTHER -> {}

\* Worker c has sent a request to the datastore and waits for the reply.
DbWait(c) == pc[c] \in {"register", "login_query"}

(***************************************************************************)
(* send_message, one sendall at a time.  Reply and Start5 write a whole    *)
(* message in one step; the actions below make the same writes call by     *)
(* call.  The replies and pushes of the lobby are shorter than CHUNK_SIZE  *)
(* bytes, so a message is one length prefix, one chunk and the end marker. *)
(***************************************************************************)
\* The sendall calls of send_message(sock of connection `to`, message) made
\* by worker `by`; `kind` tells a reply from a push.
Sendalls(to, by, kind) ==
    << [to |-> to, by |-> by, kind |-> kind, what |-> "length"],
       [to |-> to, by |-> by, kind |-> kind, what |-> "chunk"],
       [to |-> to, by |-> by, kind |-> kind, what |-> "end"] >>

\* handle_client has the response and calls send_message on its own socket,
\* under no lock.
SendReply(c) ==
    /\ pc[c] = "reply"
    /\ pc' = [pc EXCEPT ![c] = "reply_send"]
    /\ sending' = [sending EXCEPT ![c] = Sendalls(c, c, "reply")]
    /\ UNCHANGED <<wireVars, clientVars, queueVars, sock, sessionVars, roomVars,
                   matchVars, localVars, req, resp, pushes, racing>>

\* The sockets notify_room_members writes to, in the order of the members:
\* the member's session's; a member without a session is skipped.
RECURSIVE PushSockets(_)
PushSockets(members) ==
    IF members = <<>> THEN <<>>
    ELSE IF Head(members) \in DOMAIN online_players
    THEN <<online_players[Head(members)]>> \o PushSockets(Tail(members))
    ELSE PushSockets(Tail(members))

RECURSIVE PushSendalls(_, _)
PushSendalls(socks, by) ==
    IF socks = <<>> THEN <<>>
    ELSE Sendalls(Head(socks), by, "push") \o PushSendalls(Tail(socks), by)

\* Some worker is inside notify_room_members' `with self.player_lock`.
PlayerLockHeld == \E d \in Conns : pc[d] = "start_send"

\* notify_room_members takes player_lock and starts its loop.
PushBegin(c) ==
    /\ pc[c] = "start_push"
    /\ ~PlayerLockHeld
    /\ pc' = [pc EXCEPT ![c] = "start_send"]
    /\ sending' = [sending EXCEPT ![c] = PushSendalls(PushSockets(notify_members[c]), c)]
    /\ UNCHANGED <<wireVars, clientVars, queueVars, sock, sessionVars, roomVars,
                   matchVars, localVars, req, resp, pushes, racing>>

\* The socket buffer of a connection: sendall blocks while it is full.
MaxSock == 6

\* One sock.sendall.  On a closed socket it raises: inside
\* notify_room_members the exception ends the message and the loop goes on
\* with the next member.
SendAll(c) ==
    /\ sending[c] # <<>>
    /\ LET call_ == Head(sending[c])
       IN  IF pc[call_.to] = "closed"
           THEN /\ sending' = [sending EXCEPT ![c] =
                                 SelectSeq(@, LAMBDA u : u.to # call_.to)]
                /\ UNCHANGED sock
           ELSE /\ Len(sock[call_.to]) < MaxSock
                /\ sock' = [sock EXCEPT ![call_.to] = Append(@, call_)]
                /\ sending' = [sending EXCEPT ![c] = Tail(@)]
    /\ UNCHANGED <<wireVars, clientVars, queueVars, sessionVars, roomVars, matchVars,
                   localVars, pc, req, resp, pushes, racing>>

\* send_message has returned to handle_client: the loop goes on to the next
\* request, as after Reply.
ReplySent(c) ==
    /\ pc[c] = "reply_send"
    /\ sending[c] = <<>>
    /\ current_user' = [current_user EXCEPT ![c] =
                          IF req[c].action = "LOGIN" THEN LoginUser(resp[c]) ELSE @]
    /\ pc' = [pc EXCEPT ![c] = "recv"]
    /\ req' = [req EXCEPT ![c] = NoRequest]
    /\ resp' = [resp EXCEPT ![c] = NoResponse]
    /\ game_port' = [game_port EXCEPT ![c] = 0]
    /\ racing' = racing \ {c}
    /\ UNCHANGED <<peerVars, sessionVars, roomVars, matchVars, notify_members, pushes>>

\* The loop of notify_room_members has ended and player_lock is released:
\* start_game returns its reply, as after Start5.
PushSent(c) ==
    /\ pc[c] = "start_send"
    /\ sending[c] = <<>>
    /\ pushes' = Notified(notify_members[c],
                           GameStarting(req[c].name, game_port[c], req[c].roomId),
                           pushes)
    /\ notify_members' = [notify_members EXCEPT ![c] = <<>>]
    /\ Return(c, [success |-> TRUE, gamePort |-> game_port[c]])
    /\ UNCHANGED <<peerVars, sessionVars, roomVars, matchVars, current_user, game_port, req,
                   racing>>

\* The peer's recv_message on connection c: it reads up to the first end
\* marker and takes what it has read for one message.
SockRecv(c) ==
    /\ \E i \in 1..Len(sock[c]) :
         /\ sock[c][i].what = "end"
         /\ \A j \in 1..(i - 1) : sock[c][j].what # "end"
         /\ sock' = [sock EXCEPT ![c] = SubSeq(@, i + 1, Len(@))]
    /\ UNCHANGED <<wireVars, clientVars, queueVars, sending, sessionVars, roomVars,
                   matchVars, localVars, pc, req, resp, pushes, racing>>

\* login's `with self.player_lock` waits while notify_room_members holds
\* the lock.  (handle_client's finally block takes it only when a user is
\* recorded for the connection.)
LoginInsert(c) ==
    /\ ~PlayerLockHeld
    /\ Login3(c)

(***************************************************************************)
(* The lobby.                                                              *)
(***************************************************************************)
SessionWorker(c) ==
    \/ Login1(c) \/ Login2(c) \/ Login3(c)
    \/ Logout1(c) \/ Logout2(c)

RoomWorker(c) ==
    \/ CreateRoom(c)
    \/ Join1(c) \/ Join2(c) \/ Join3(c)
    \/ Leave1(c) \/ Leave2(c)
    \/ Start1(c) \/ Start2(c) \/ Start3(c) \/ Start4(c) \/ Start5(c)
    \/ StartFailed(c)

\* A step of worker c's handler, or the reply.
WorkerStep(c) == Reply(c) \/ Register(c) \/ SessionWorker(c) \/ RoomWorker(c)

Reaper(p) == ProcessExit(p) \/ Reap1(p) \/ Reap2(p)

\* The whole lobby.
Next ==
    \/ \E c \in Conns :
         \/ Recv(c) \/ Disconnect(c) \/ Reply(c)
         \/ Register(c) \/ SessionWorker(c) \/ RoomWorker(c)
    \/ \E p \in Ports : Reaper(p)

Spec == Init /\ [][Next]_vars

\* The players of the smaller specifications, and the game of their rooms.
Pair == {"a", "b"}
Duel == {"Duel"}

\* The lobby serving account requests only.
SessionNext ==
    \E c \in Conns :
      \/ RecvFrom(c, SessionRequests(Pair), 0) \/ Disconnect(c) \/ Reply(c)
      \/ SessionWorker(c)

SessionSpec == Init /\ [][SessionNext]_vars

\* The lobby serving account requests, REGISTER too.
RegisterNext ==
    \E c \in Conns :
      \/ RecvFrom(c, SessionRequests(Pair) \cup RegisterRequests(Pair), 0)
      \/ Disconnect(c) \/ Reply(c)
      \/ Register(c) \/ SessionWorker(c)

RegisterSpec == Init /\ [][RegisterNext]_vars

\* The lobby serving the room directory only: three players and one room,
\* of either game.
DirectoryNext ==
    \E c \in Conns :
      \/ RecvFrom(c, DirectoryRequests(1..RoomSpecRooms, Names,
                                        Games \cup {NoGame}),
                  RoomSpecRooms)
      \/ Reply(c)
      \/ CreateRoom(c)
      \/ Join1(c) \/ Join2(c) \/ Join3(c)
      \/ Leave1(c) \/ Leave2(c)

DirectorySpec == Init /\ [][DirectoryNext]_vars

\* The lobby serving every room and match request, on one room.
RoomNext ==
    \/ \E c \in Conns :
         \/ RecvFrom(c, RoomRequests(1..RoomSpecRooms, Pair, Duel \cup {NoGame}),
                     RoomSpecRooms)
         \/ Reply(c)
         \/ RoomWorker(c)
    \/ \E p \in Ports : Reaper(p)

RoomSpec == Init /\ [][RoomNext]_vars

\* The same, each connection used by one player who sends requests in
\* their own name.
Player(c) == IF c = 1 THEN "a" ELSE "b"

OwnNext ==
    \/ \E c \in Conns :
         \/ RecvFrom(c, RoomRequests(1..RoomSpecRooms, {Player(c)},
                                     Duel \cup {NoGame}),
                     RoomSpecRooms)
         \/ Reply(c)
         \/ RoomWorker(c)
    \/ \E p \in Ports : Reaper(p)

\* Scheduling: a worker thread that is inside start_game or inside
\* leave_room's critical section goes on running, and so does a reaper
\* thread whose process has ended; a reaper that waits for room_lock gets
\* it in the end, since every worker that holds it releases it and then
\* blocks on its socket.
RoomFairness ==
    /\ \A c \in Conns :
         /\ WF_vars(Leave2(c))
         /\ WF_vars(Start2(c))
         /\ WF_vars(Start3(c))
    /\ \A p \in Ports : WF_vars(Reap1(p)) /\ SF_vars(Reap2(p))

FairSpec == Init /\ [][OwnNext]_vars /\ RoomFairness

\* The lobby serving account requests of either player's and the room
\* directory requests each player sends in their own name, on one room.
DbNext ==
    \E c \in Conns :
      \/ RecvFrom(c, {r \in SessionRequests(Pair) \cup RegisterRequests(Pair) :
                        r.action = "LOGOUT" \/ r.password = 1}
                     \cup DirectoryRequests(1..RoomSpecRooms, {Player(c)}, Duel),
                  RoomSpecRooms)
      \/ Reply(c)
      \/ Register(c) \/ SessionWorker(c)
      \/ CreateRoom(c)
      \/ Join1(c) \/ Join2(c) \/ Join3(c)
      \/ Leave1(c) \/ Leave2(c)

DbSpec == Init /\ [][DbNext]_vars

\* The lobby serving the requests that create, fill and start rooms, on
\* two rooms.
StartNext ==
    \/ \E c \in Conns :
         \/ RecvFrom(c, {r \in RoomRequests(1..MaxRooms, Pair, Duel) :
                           r.action # "LEAVE_ROOM"},
                     MaxRooms)
         \/ Reply(c)
         \/ CreateRoom(c)
         \/ Join1(c) \/ Join2(c) \/ Join3(c)
         \/ Start1(c) \/ Start2(c) \/ Start3(c) \/ Start4(c) \/ Start5(c)
    \/ \E p \in Ports : Reaper(p)

StartSpec == Init /\ [][StartNext]_vars

\* One room; every connection sends its requests in its player's name, and
\* START_GAME and CREATE_ROOM name any installed game.
ProgramNext ==
    \/ \E c \in Conns :
         \/ RecvFrom(c, {r \in RoomRequests(1..RoomSpecRooms, {Player(c)}, Games) :
                           r.action # "LEAVE_ROOM"},
                     RoomSpecRooms)
         \/ Reply(c)
         \/ CreateRoom(c)
         \/ Join1(c) \/ Join2(c) \/ Join3(c)
         \/ Start1(c) \/ Start2(c) \/ Start3(c) \/ Start4(c) \/ Start5(c)
    \/ \E p \in Ports : Reaper(p)

ProgramSpec == Init /\ [][ProgramNext]_vars

\* The lobby serving Player logins (with the right password) and the
\* requests that create, fill and start one room: the GAME_STARTING pushes
\* reach the players' sessions.
NotifyRequests ==
    {r \in SessionRequests(Pair) :
       /\ r.action = "LOGIN" /\ r.role = "Player"
       /\ DBQuery("Player", r.name)[1].passwordHash = Sha256(r.password)}
    \cup {r \in RoomRequests(1..RoomSpecRooms, Pair, Duel) : r.action # "LEAVE_ROOM"}

NotifyNext ==
    \/ \E c \in Conns :
         \/ RecvFrom(c, NotifyRequests, RoomSpecRooms)
         \/ Disconnect(c)
         \/ Reply(c)
         \/ Login1(c) \/ Login2(c) \/ Login3(c)
         \/ CreateRoom(c)
         \/ Join1(c) \/ Join2(c) \/ Join3(c)
         \/ Start1(c) \/ Start2(c) \/ Start3(c) \/ Start4(c) \/ Start5(c)
    \/ \E p \in Ports : Reaper(p)

NotifySpec == Init /\ [][NotifyNext]_vars

\* Players log in, fill one room and start its match, every connection in
\* its player's name; the lobby's writes are made one sendall at a time.
SendRequests(c) ==
    {r \in NotifyRequests : r.name = Player(c) /\ r.game \in {NoGame} \cup Duel}

SendNext ==
    \E c \in Conns :
      \/ RecvFrom(c, SendRequests(c), RoomSpecRooms)
      \/ Login1(c) \/ Login2(c) \/ LoginInsert(c)
      \/ CreateRoom(c)
      \/ Join1(c) \/ Join2(c) \/ Join3(c)
      \/ Start1(c) \/ Start2(c) \/ Start3(c) \/ Start4(c)
      \/ SendReply(c) \/ ReplySent(c)
      \/ PushBegin(c) \/ PushSent(c)
      \/ SendAll(c)
      \/ SockRecv(c)

SendSpec == Init /\ [][SendNext]_vars

\* The lobby serving the room directory on two rooms: rooms are created,
\* joined, left and deleted.
CreateNext ==
    \E c \in Conns :
      \/ RecvFrom(c, DirectoryRequests(1..MaxRooms, Pair, Duel), MaxRooms)
      \/ Reply(c)
      \/ CreateRoom(c)
      \/ Join1(c) \/ Join2(c) \/ Join3(c)
      \/ Leave1(c) \/ Leave2(c)

CreateSpec == Init /\ [][CreateNext]_vars

\* The worker of one connection reading its peer's bytes, while another
\* connection creates and fills a room.
WireNext ==
    \/ WireRecv(WireConn)
    \/ \E v \in JsonValues : PeerSend(v)
    \/ \E lead \in Leads : \E n \in Oversized : PeerSendOversized(lead, n)
    \/ \E n \in 0..(MaxWritten * Len(SendMessage("{'a': 0}"))) : PeerClose(n)
    \/ \E c \in Conns : Reply(c)
    \/ \E c \in Conns \ {WireConn} :
         \/ RecvFrom(c, {r \in DirectoryRequests(1..RoomSpecRooms, Pair, Duel) :
                           r.action # "LEAVE_ROOM"},
                     RoomSpecRooms)
         \/ CreateRoom(c)
         \/ Join1(c) \/ Join2(c) \/ Join3(c)

WireSpec == Init /\ [][WireNext]_vars

\* A client: its calling threads, its receiver thread and the lobby's
\* messages to it.
ClientNext ==
    \/ \E t \in Callers :
         \/ SendRequest(t) \/ SendRequestFails(t)
         \/ Poll(t) \/ Tick(t) \/ TimeOut(t) \/ Returned(t)
    \/ \E m \in LobbyMessages : LobbyWrites(m)
    \/ Receive
    \/ ReceiverEnds

ClientSpec == Init /\ [][ClientNext]_vars

(***************************************************************************)
(* The player client of connection ClientConn beside the lobby: its        *)
(* receiver thread reads the pushes the lobby has written to it, and its   *)
(* menu thread runs join_game.                                             *)
(***************************************************************************)
\* receive_lobby_messages reads the next push: a GAME_STARTING of another
\* player's start is queued, the client's own is dropped (it carries no
\* requestId).
ReceivePush ==
    /\ push_read < Len(pushes[ClientConn])
    /\ LET msg == pushes[ClientConn][push_read + 1]
       IN  message_queue' = IF Queued(msg) THEN Append(message_queue, msg)
                            ELSE message_queue
    /\ push_read' = push_read + 1
    /\ UNCHANGED <<wireVars, clientVars, joined, sockVars, sessionVars, roomVars,
                   matchVars, localVars, pc, req, resp, pushes, racing>>

\* join_game's game_info = None.
NoGameInfo == [action |-> None]

\* join_game's loop over the queue: the last GAME_STARTING of the client's
\* room, or None.
RECURSIVE GameInfo(_, _, _)
GameInfo(queue, room, game_info) ==
    IF queue = <<>> THEN game_info
    ELSE GameInfo(Tail(queue), room,
                  IF Get(Head(queue), "action") = "GAME_STARTING"
                     /\ Get(Head(queue), "roomId") = room
                  THEN Head(queue)
                  ELSE game_info)

\* How many times the player runs join_game.
MaxJoins == 2

\* join_game in room rid, the room the client has created or joined (its
\* self.room): the queue is emptied; with a GAME_STARTING of the room the
\* client connects to its gamePort; with none it sends START_GAME, which
\* the lobby's worker receives.  `joined` records the port used and, for
\* comparison, the port of the Match entry the room has at that time (0
\* for none).
JoinGame(rid) ==
    /\ Len(joined) < MaxJoins
    /\ pc[ClientConn] = "recv"
    /\ rid \in DOMAIN rooms
    /\ In(userName, rooms[rid].members)
    /\ message_queue' = <<>>
    /\ LET game_info == GameInfo(message_queue, rid, NoGameInfo)
           start == [action |-> "START_GAME", name |-> userName, role |-> None,
                     password |-> 0, roomId |-> rid, game |-> rooms[rid].game]
       IN  IF game_info = NoGameInfo
           THEN /\ WithinBounds(start, RoomSpecRooms)
                /\ req' = [req EXCEPT ![ClientConn] = start]
                /\ pc' = [pc EXCEPT ![ClientConn] = Handler(start.action)]
                /\ racing' = IF \E d \in Conns : Races(ClientConn, start, d)
                              THEN {ClientConn}
                                   \cup {d \in Conns : Races(ClientConn, start, d)}
                              ELSE racing
                /\ UNCHANGED joined
           ELSE /\ joined' = Append(joined,
                                    [gamePort |-> game_info.gamePort,
                                     room |-> rid,
                                     match |-> IF rid \in DOMAIN games
                                               THEN games[rid].port ELSE 0])
                /\ UNCHANGED <<pc, req, racing>>
    /\ UNCHANGED <<wireVars, clientVars, push_read, sockVars, sessionVars, roomVars,
                   matchVars, localVars, resp, pushes>>

\* The requests of connection c in its player's name; the client of
\* ClientConn sends START_GAME from join_game only.
JoinRequests(c) ==
    {r \in SendRequests(c) : c = ClientConn => r.action # "START_GAME"}

JoinNext ==
    \/ \E c \in Conns :
         \/ RecvFrom(c, JoinRequests(c), RoomSpecRooms)
         \/ Reply(c)
         \/ Login1(c) \/ Login2(c) \/ Login3(c)
         \/ CreateRoom(c)
         \/ Join1(c) \/ Join2(c) \/ Join3(c)
         \/ Start1(c) \/ Start2(c) \/ Start3(c) \/ Start4(c) \/ Start5(c)
    \/ \E p \in Ports : Reaper(p)
    \/ ReceivePush
    \/ \E rid \in 1..RoomSpecRooms : JoinGame(rid)

JoinSpec == Init /\ [][JoinNext]_vars

(***************************************************************************)
(* Claims.                                                                 *)
(***************************************************************************)
StartReplied(c) == pc[c] = "reply" /\ req[c].action = "START_GAME"

\* C1: in every reachable state, under any interleaving of CREATE_ROOM,
\* JOIN_ROOM and LEAVE_ROOM, every room has at most room_max members.
C1_MembersWithinCapacity ==
    \A rid \in DOMAIN rooms : Len(rooms[rid].members) <= rooms[rid].room_max

\* C2 as claimed: at every step, the match registry holds an entry for a
\* room id if and only if that room exists and its status is playing.
C2_MatchIffPlaying ==
    \A rid \in 1..MaxRooms :
      rid \in DOMAIN games
        <=> (rid \in DOMAIN rooms /\ rooms[rid].status = "playing")

\* A START_GAME on room rid is between setting the status and storing the
\* Match entry (or resetting the status after a failed spawn).
Launching(rid) ==
    \E c \in Conns :
      /\ pc[c] \in {"start_spawn", "start_register", "start_failed"}
      /\ req[c].roomId = rid

\* A reaper of room rid has removed the Match entry and not yet reset the
\* room.
Reaping(rid) ==
    \E p \in DOMAIN procs : procs[p].room = rid /\ procs[p].reaper = "cleanup_room"

\* C2 as amended: a Match entry implies that its room, if it still exists,
\* is playing; and a playing room has a Match entry except while the
\* START_GAME that set it is on its way to store the entry and while the
\* reaper is between removing the entry and resetting the room.
C2_MatchImpliesPlaying ==
    /\ \A rid \in DOMAIN games :
         rid \in DOMAIN rooms => rooms[rid].status = "playing"
    /\ \A rid \in DOMAIN rooms :
         rooms[rid].status = "playing" /\ rid \notin DOMAIN games
           => Launching(rid) \/ Reaping(rid)

\* C2's case: a playing room with its Match entry and a running process.
C2_Witness ==
    \E rid \in DOMAIN games :
      /\ rid \in DOMAIN rooms
      /\ rooms[rid].status = "playing"
      /\ games[rid].port \in DOMAIN procs
      /\ procs[games[rid].port].state = "running"

\* C3 as claimed: of two START_GAME calls of the host that race on an idle
\* room with enough members, exactly one succeeds and the other is
\* rejected as already starting.
C3_ExactlyOneSucceeds ==
    \A c, d \in Conns :
      c # d /\ {c, d} \subseteq racing /\ StartReplied(c) /\ StartReplied(d)
        => \/ resp[c].success /\ resp[d] = Error("Game is starting, please wait")
           \/ resp[d].success /\ resp[c] = Error("Game is starting, please wait")

\* The match processes of room rid that have not been reaped, and the
\* START_GAME calls on it that have passed the tests and not spawned yet.
Unreaped(rid) == {p \in DOMAIN procs : procs[p].room = rid}
Spawning(rid) ==
    {c \in Conns : pc[c] \in {"start_spawn", "start_failed"} /\ req[c].roomId = rid}

\* The START_GAME call of worker c has returned after passing the tests:
\* it reports the match started, or the spawn failed.
PassedTests(c) ==
    StartReplied(c)
    /\ (resp[c].success \/ resp[c] = Error("Failed to start game server"))

\* C3 as amended: a START_GAME passes the tests on a room only when no
\* other call on it is between its tests and its spawn and the room has no
\* match process left, so a room never has two match processes at once; of
\* two racing calls at least one passes the tests, and the other passes
\* them too or is rejected as already starting.
C3_OneStartAtATime ==
    /\ \A rid \in 1..MaxRooms :
         /\ Cardinality(Unreaped(rid)) + Cardinality(Spawning(rid)) <= 1
         /\ Cardinality(Unreaped(rid)) + Cardinality(Spawning(rid)) = 1
              /\ rid \in DOMAIN rooms /\ ~Reaping(rid)
              => rooms[rid].status = "playing"
    /\ \A c, d \in Conns :
         c # d /\ {c, d} \subseteq racing /\ StartReplied(c) /\ StartReplied(d)
           => /\ PassedTests(c) \/ PassedTests(d)
              /\ \A e \in {c, d} :
                   PassedTests(e)
                   \/ resp[e] = Error("Game is starting, please wait")

\* C3's case: of two racing calls one has started the match and the other
\* has been rejected.
C3_Witness ==
    \E c, d \in Conns :
      /\ c # d /\ {c, d} \subseteq racing
      /\ StartReplied(c) /\ resp[c].success
      /\ StartReplied(d) /\ resp[d] = Error("Game is starting, please wait")

OneRemoved(before, after, x) ==
    /\ Len(after) = Len(before) - 1
    /\ \E i \in 1..Len(before) :
         /\ before[i] = x
         /\ \A j \in 1..Len(after) :
              after[j] = IF j < i THEN before[j] ELSE before[j + 1]

\* C9: LEAVE_ROOM removes the leaver and keeps the order of the others;
\* when the host has left and members remain, the new host is the first
\* of them, the one who joined earliest; when another member leaves, the
\* host stays; and no other step changes the host or reorders the members
\* (JOIN_ROOM appends).
C9_HostPromotion ==
    [][\A rid \in DOMAIN rooms :
         LET before == rooms[rid]
             leavers == {c \in Conns : req[c].roomId = rid /\ pc'[c] # pc[c]
                                       /\ pc[c] \in {"leave_room", "leave_fix"}}
         IN  /\ \A c \in leavers :
                  /\ pc[c] = "leave_room" /\ pc'[c] = "leave_fix"
                       => /\ OneRemoved(before.members, rooms'[rid].members,
                                        req[c].name)
                          /\ rooms'[rid].host = before.host
                  /\ pc[c] = "leave_room" /\ pc'[c] = "reply"
                       => rooms' = rooms
                  /\ pc[c] = "leave_fix" /\ before.members # <<>>
                       => /\ rid \in DOMAIN rooms'
                          /\ rooms'[rid].members = before.members
                          /\ rooms'[rid].host =
                               IF req[c].name = before.host
                               THEN Head(before.members)
                               ELSE before.host
             /\ leavers = {} /\ rid \in DOMAIN rooms'
                  => /\ rooms'[rid].host = before.host
                     /\ \/ rooms'[rid].members = before.members
                        \/ \E n \in Names :
                             rooms'[rid].members = Append(before.members, n)
      ]_vars

\* C9's case: the host has been removed from a room in which members
\* remain, and leave_room is about to replace the host.
C9_Witness ==
    \E c \in Conns :
      /\ pc[c] = "leave_fix"
      /\ req[c].name = rooms[req[c].roomId].host
      /\ Len(rooms[req[c].roomId].members) > 0
      /\ Head(rooms[req[c].roomId].members) # req[c].name

\* C4: the ports START_GAME hands out, in the order it hands them out, are
\* strictly increasing and below the counter: no two calls that pass the
\* tests get the same port, on the same room or on different rooms, and a
\* port is not handed out again after its match has ended; the ports of
\* the calls under way, of the Match entries and of the processes are
\* among them, each held by one call and one room.
C4_PortsDistinct ==
    /\ \A i \in 1..Len(allocated) :
         /\ allocated[i] < next_game_port
         /\ \A j \in 1..(i - 1) : allocated[j] < allocated[i]
    /\ \A c \in Conns :
         game_port[c] # 0
           => /\ \E i \in 1..Len(allocated) : allocated[i] = game_port[c]
              /\ \A d \in Conns \ {c} : game_port[d] # game_port[c]
    /\ \A rid \in DOMAIN games :
         /\ \E i \in 1..Len(allocated) : allocated[i] = games[rid].port
         /\ \A other \in DOMAIN games \ {rid} : games[other].port # games[rid].port
    /\ \A p \in DOMAIN procs : \E i \in 1..Len(allocated) : allocated[i] = p

\* C4's case: two matches run at once, on different rooms and ports.
C4_Witness ==
    \E r1, r2 \in DOMAIN games :
      /\ r1 # r2
      /\ games[r1].port # games[r2].port
      /\ \A r \in {r1, r2} :
           games[r].port \in DOMAIN procs /\ procs[games[r].port].state = "running"

\* C5: once the serving loop of a connection has ended, no session of
\* either role is bound to that connection any more.
C5_ClosedConnectionHasNoSession ==
    \A c \in Conns :
      pc[c] = "closed"
        => /\ \A n \in DOMAIN online_players : online_players[n] # c
           /\ \A n \in DOMAIN online_developers : online_developers[n] # c

\* The identity (name, role) is registered with this password.
Registered(name, role, password) ==
    \E d \in Collections[role] :
      d.userName = name /\ d.passwordHash = Sha256(password)

\* C6: a LOGIN of a registered identity with the correct password is
\* rejected as already online if and only if the name has a session in the
\* map of the request's role.
C6_AlreadyOnlineIffSameRole ==
    [][\A c \in Conns :
         /\ pc[c] = "login"
         /\ pc'[c] # "login"
         /\ Registered(req[c].name, req[c].role, req[c].password)
         => ((pc'[c] = "reply" /\ resp'[c] = Error("User already online"))
               <=> req[c].name \in DOMAIN RoleMap(req[c].role))
      ]_vars

\* The LOGIN of worker c has returned success.
LoggedIn(c) == pc[c] = "reply" /\ req[c].action = "LOGIN" /\ resp[c].success

\* C7: two LOGINs of the same Player name that are under way at once do
\* not both succeed.
C7_OneLoginSucceeds ==
    \A c, d \in Conns :
      /\ c # d
      /\ LoggedIn(c) /\ LoggedIn(d)
      /\ req[c].role = "Player" /\ req[d].role = "Player"
      => req[c].name # req[d].name

\* The match process on port p, launched for room rid, has ended.
Ended(p, rid) ==
    p \in DOMAIN procs /\ procs[p].room = rid /\ procs[p].state # "running"

\* The reaper of port p has finished: room rid has no Match entry and, if
\* it still exists, is idle, so that its host can start it again once it
\* has enough members.
Reaped(p, rid) ==
    /\ p \notin DOMAIN procs
    /\ rid \notin DOMAIN games
    /\ rid \in DOMAIN rooms
         => /\ rooms[rid].status = "idle"
            /\ Len(rooms[rid].members) >= rooms[rid].room_min
                 => StartError(rooms[rid], rooms[rid].host) = None

\* C10: whenever a match process has ended, with any exit code, the Match
\* entry of its room is eventually removed and the room, if it still
\* exists, is eventually idle again and can be started again.
C10_EndedMatchIsReaped ==
    \A p \in Ports : \A rid \in 1..MaxRooms : Ended(p, rid) ~> Reaped(p, rid)

\* C10's case: a match process has ended, its reaper has finished and the room
\* is idle again.
C10_Witness ==
    \E rid \in DOMAIN rooms :
      /\ rooms[rid].status = "idle"
      /\ rid \notin DOMAIN games
      /\ procs = <<>>
      /\ allocated # <<>>
      /\ \E c \in Conns : StartReplied(c) /\ resp[c].success /\ req[c].roomId = rid

\* The elements `after` has after those of `before`: what a step appended.
Appended(before, after) == SubSeq(after, Len(before) + 1, Len(after))

\* C11: a START_GAME that passes the tests takes the port the counter
\* shows and keeps it to its reply; the process it spawns listens on that
\* port, the Match entry it stores records that port, every GAME_STARTING
\* it pushes carries that port and its reply returns that port.
C11_SamePort ==
    [][\A c \in Conns :
         LET rid == req[c].roomId
             port == game_port[c]
         IN  /\ pc[c] = "start_game" /\ pc'[c] = "start_spawn"
                  => /\ game_port'[c] = next_game_port
                     /\ game_port'[c] < next_game_port'
             /\ pc[c] \in {"start_spawn", "start_register", "start_notify",
                           "start_push"}
                  => game_port'[c] = port
             /\ pc[c] = "start_spawn" /\ pc'[c] = "start_register"
                  => /\ port \notin DOMAIN procs
                     /\ DOMAIN procs' = DOMAIN procs \cup {port}
                     /\ procs'[port].room = rid
             /\ pc[c] = "start_register" /\ pc'[c] = "start_notify"
                  => /\ games'[rid].port = port
                     /\ port \in DOMAIN procs'
             /\ pc[c] = "start_push" /\ pc'[c] = "reply"
                  => \A k \in Conns :
                       /\ SubSeq(pushes'[k], 1, Len(pushes[k])) = pushes[k]
                       /\ \A i \in 1..Len(Appended(pushes[k], pushes'[k])) :
                            Appended(pushes[k], pushes'[k])[i].gamePort = port
             /\ pc[c] \in {"start_notify", "start_push"} /\ pc'[c] = "reply"
                  => resp'[c] = [success |-> TRUE, gamePort |-> port]
      ]_vars

\* C11's case: a start has replied with a port while its process runs on
\* that port, its Match entry records it and another connection has been
\* pushed it.
C11_Witness ==
    \E c \in Conns :
      /\ StartReplied(c) /\ resp[c].success
      /\ req[c].roomId \in DOMAIN games
      /\ games[req[c].roomId].port = resp[c].gamePort
      /\ resp[c].gamePort \in DOMAIN procs
      /\ procs[resp[c].gamePort].state = "running"
      /\ \E k \in Conns \ {c} :
           pushes[k] # <<>> /\ pushes[k][Len(pushes[k])].gamePort = resp[c].gamePort

\* The members of the list that have a live Player session on connection k.
LiveMembers(members, k) ==
    {n \in DOMAIN online_players :
       In(n, members) /\ online_players[n] = k /\ pc[k] # "closed"}

\* C12: the pushes of a start write one GAME_STARTING message to a
\* connection for every room member whose live Player session it is, and
\* none for the other members; the start succeeds either way.
C12_OnePushPerMember ==
    [][\A c \in Conns :
         pc[c] = "start_push" /\ pc'[c] = "reply"
           => /\ resp'[c].success
              /\ \A k \in Conns :
                   Len(Appended(pushes[k], pushes'[k]))
                     = Cardinality(LiveMembers(notify_members[c], k))
      ]_vars

\* The sequence p is the beginning of s, and a shorter beginning.
IsPrefix(p, s) == Len(p) <= Len(s) /\ SubSeq(s, 1, Len(p)) = p
IsProperPrefix(p, s) == Len(p) < Len(s) /\ IsPrefix(p, s)

\* recv_message has returned or raised in this step.
Received == pc[WireConn] = "recv" /\ got' # got

\* C13: when the unread bytes begin with the bytes send_message(v) writes,
\* for any value v, of one chunk or of several, recv_message does not wait
\* for more, returns v and leaves unread exactly the bytes that follow
\* them, so that the message after it is decoded in its turn.
C13_RoundTrip ==
    /\ [](\A v \in JsonValues :
            IsPrefix(SendMessage(v), wire)
              => RecvMessage(wire, shut).kind = "return")
    /\ [][\A v \in JsonValues :
            Received /\ IsPrefix(SendMessage(v), wire)
              => /\ got' = Append(got, v)
                 /\ wire' = SubSeq(wire, Len(SendMessage(v)) + 1, Len(wire))
         ]_vars

\* C13's case: two messages of three chunks each have been written and
\* both have been returned.
C13_Witness ==
    /\ written = <<"{'a': 0}", "{'a': 0}">>
    /\ got = written
    /\ wire = <<>>

\* C14: when the peer has closed the stream and the unread bytes are the
\* beginning of a message cut at any byte (none, part of a length prefix,
\* part of a chunk body, or all but the end marker), recv_message returns
\* None and raises nothing, and the worker ends.
C14_ClosedStreamIsNoMessage ==
    [][Received /\ shut
         /\ (\E v \in JsonValues : IsProperPrefix(wire, SendMessage(v)))
         => /\ got' = Append(got, None)
            /\ pc'[WireConn] = "closed"
      ]_vars

\* C14's case: the only message written, of three chunks, was cut before
\* its end and recv_message has returned None.
C14_Witness ==
    /\ written = <<"{'a': 0}">>
    /\ shut
    /\ got = <<None>>
    /\ pc[WireConn] = "closed"

\* The bytes are whole chunks of declared lengths 1..CHUNK_SIZE.
RECURSIVE WellSized(_)
WellSized(s) ==
    \/ s = <<>>
    \/ /\ Len(s) > 4
       /\ Unpack(SubSeq(s, 1, 4)) \in 1..CHUNK_SIZE
       /\ Len(s) >= 4 + Unpack(SubSeq(s, 1, 4))
       /\ WellSized(SubSeq(s, 5 + Unpack(SubSeq(s, 1, 4)), Len(s)))

\* C15: when the unread bytes are whole chunks followed by a length prefix
\* that declares more than CHUNK_SIZE bytes, recv_message raises ValueError
\* and has read nothing after that prefix; the worker ends and closes the
\* connection, sends no reply and changes no room, match or session.
C15_OversizedChunkClosesConnection ==
    [][\A i \in 0..(Len(wire) - 4) :
         /\ Received
         /\ WellSized(SubSeq(wire, 1, i))
         /\ Unpack(SubSeq(wire, i + 1, i + 4)) > CHUNK_SIZE
         => /\ got' = Append(got, "ValueError")
            /\ wire' = SubSeq(wire, i + 5, Len(wire))
            /\ pc'[WireConn] = "closed"
            /\ resp' = resp
            /\ pushes' = pushes
            /\ rooms' = rooms /\ next_room_id' = next_room_id
            /\ games' = games
            /\ online_players' = online_players
            /\ online_developers' = online_developers
      ]_vars

\* C15's case: after a message, an oversized prefix was read in a lobby
\* that has a room; the connection is closed and the frame's body unread.
C15_Witness ==
    /\ got # <<>> /\ got[Len(got)] = "ValueError"
    /\ pc[WireConn] = "closed"
    /\ wire = OversizedBody
    /\ rooms # <<>>
    /\ written = <<"{'a': 0}", "Oversized">>

\* C16: a send_request that polls leaves the loop only by returning a
\* value, and when no reply with its id is pending it returns only after
\* the whole TIMEOUT, the value is the timeout error, and pending_requests
\* is as it was: no entry added, removed or changed.
C16_TimeoutIsAValue ==
    [][\A t \in Callers :
         call[t].pc = "polling" /\ call'[t].pc # "polling"
           => /\ call'[t].pc = "returned"
              /\ call[t].id \notin DOMAIN pending_requests
                   => /\ call[t].waited = TIMEOUT
                      /\ call'[t].result = RequestTimeout
                      /\ pending_requests' = pending_requests
                      /\ returns' = returns
      ]_vars

\* C16's case: a call has returned the timeout error after the whole wait
\* while the reply to another request is pending.
C16_Witness ==
    \E t \in Callers :
      /\ call[t].pc = "returned"
      /\ call[t].result = RequestTimeout
      /\ call[t].waited = TIMEOUT
      /\ call[t].id \notin DOMAIN pending_requests
      /\ pending_requests # <<>>

\* C17: every reply send_request has returned carries the id of the call
\* that returned it, and no two calls have returned a reply of the same id,
\* even when the lobby has answered an id twice; the poll that returns a
\* reply removes its entry from pending_requests.
C17_AtMostOnceDelivery ==
    /\ [](/\ \A i \in 1..Len(returns) :
               /\ returns[i].reply = returns[i].call
               /\ \A j \in 1..Len(returns) :
                    j # i => returns[j].reply # returns[i].reply
          /\ \A t \in Callers :
               call[t].pc = "returned" /\ "requestId" \in DOMAIN call[t].result
                 => call[t].result.requestId = call[t].id)
    /\ [][\A t \in Callers :
            call[t].pc = "polling" /\ call'[t].pc = "returned"
              /\ call'[t].result # RequestTimeout
              => call[t].id \notin DOMAIN pending_requests'
         ]_vars

\* C17's case: two replies have been returned and a second reply to one of
\* those ids has arrived since.
C17_Witness ==
    /\ Len(returns) >= 2
    /\ \E i \in 1..Len(returns) : returns[i].reply \in DOMAIN pending_requests

\* C18: a worker that has decoded a request ends or reads again only after
\* it has written the reply to that request: it never ends with a request
\* in hand, and it goes back to reading only from writing a reply.
C18_EveryRequestIsAnswered ==
    [][\A c \in Conns :
         /\ pc[c] \notin {"recv", "closed"} => pc'[c] # "closed"
         /\ pc[c] # "recv" /\ pc'[c] = "recv" => pc[c] = "reply"
         /\ pc[c] = "recv" /\ pc'[c] \notin {"recv", "closed"} => req'[c] # NoRequest
      ]_vars

\* The handler of worker c is at a step that looks up a room that does not
\* exist, or a game that is not installed.
NotFound(c) ==
    \/ /\ pc[c] \in {"join_room", "join_member", "join_append", "start_game"}
       /\ req[c].roomId \notin DOMAIN rooms
    \/ pc[c] = "create_room" /\ req[c].game \notin Games

\* C19: a JOIN_ROOM or START_GAME on a room that does not exist, and a
\* CREATE_ROOM for a game that is not installed, returns a reply with
\* success false and an error, changes no lobby state, and the connection
\* stays open.
C19_NotFoundIsAnErrorReply ==
    [][\A c \in Conns :
         NotFound(c) /\ pc'[c] # pc[c]
           => /\ pc'[c] = "reply"
              /\ "error" \in DOMAIN resp'[c]
              /\ resp'[c].success = FALSE
              /\ <<sessionVars, roomVars, matchVars>>' = <<sessionVars, roomVars, matchVars>>
      ]_vars

\* C20: a LOGOUT of a name without a session in the role's map returns
\* {success: False}, leaves both maps as they are and the connection open;
\* a LOGOUT of a name with a session removes that mapping and no other.
C20_LogoutOfAbsentNameFails ==
    [][\A c \in Conns :
         /\ pc[c] = "logout" /\ pc'[c] # pc[c]
              /\ req[c].name \notin DOMAIN RoleMap(req[c].role)
              => /\ pc'[c] = "reply"
                 /\ resp'[c] = [success |-> FALSE]
                 /\ sessionVars' = sessionVars
         /\ pc[c] = "logout_del" /\ pc'[c] = "reply"
              => /\ resp'[c] = [success |-> TRUE]
                 /\ online_players' = IF req[c].role = "Player"
                                      THEN Del(online_players, req[c].name)
                                      ELSE online_players
                 /\ online_developers' = IF req[c].role = "Developer"
                                         THEN Del(online_developers, req[c].name)
                                         ELSE online_developers
      ]_vars

\* recv_message is about to return an object that carries none of the
\* actions process_request knows.
UnknownRequest ==
    /\ RecvMessage(wire, shut).kind = "return"
    /\ Truthy(RecvMessage(wire, shut).value)
    /\ IsObject(RecvMessage(wire, shut).value)

\* C21: a request whose action is not one of the lobby's actions is
\* answered with a reply that has success false and an error field; no
\* session, room or match changes and the connection stays open.
C21_UnknownActionIsAnErrorReply ==
    [][Received /\ UnknownRequest
         => /\ pc'[WireConn] = "reply"
            /\ "success" \in DOMAIN resp'[WireConn]
            /\ resp'[WireConn].success = FALSE
            /\ "error" \in DOMAIN resp'[WireConn]
            /\ <<sessionVars, roomVars, matchVars>>' = <<sessionVars, roomVars, matchVars>>
      ]_vars

\* The role's collection holds an identity of this name.
HasIdentity(name, role) == \E d \in Collections[role] : d.userName = name

\* C22 as claimed: a LOGIN for a name with no identity in the role's
\* collection fails with the not-found error and a LOGIN whose password
\* does not hash to the stored passwordHash fails with the invalid-password
\* error; no session is added and the connection stays open.
C22_WrongPasswordIsInvalidPassword ==
    [][\A c \in Conns :
         pc[c] \in {"login", "login_query"} /\ pc'[c] \notin {"login", "login_query"}
           /\ ~Registered(req[c].name, req[c].role, req[c].password)
           => /\ pc'[c] = "reply"
              /\ resp'[c] = IF HasIdentity(req[c].name, req[c].role)
                            THEN Error("Invalid password")
                            ELSE Error("User not found")
              /\ sessionVars' = sessionVars
      ]_vars

\* C22 as amended: login first tests whether the name has a Player session
\* and then fails as already online, whatever the password and the role;
\* otherwise a name with no identity in the role's collection fails with
\* the not-found error, a password that does not hash to the stored
\* passwordHash fails with the invalid-password error, and only the correct
\* password goes on to the insertion.  Every failure leaves both role maps
\* as they were and the connection open.
C22_LoginFailures ==
    [][\A c \in Conns :
         /\ pc[c] = "login" /\ pc'[c] # pc[c]
              => /\ sessionVars' = sessionVars
                 /\ IF req[c].name \in DOMAIN online_players
                    THEN pc'[c] = "reply" /\ resp'[c] = Error("User already online")
                    ELSE pc'[c] = "login_query"
         /\ pc[c] = "login_query" /\ pc'[c] # pc[c]
              => /\ sessionVars' = sessionVars
                 /\ IF ~HasIdentity(req[c].name, req[c].role)
                    THEN pc'[c] = "reply" /\ resp'[c] = Error("User not found")
                    ELSE IF ~Registered(req[c].name, req[c].role, req[c].password)
                    THEN pc'[c] = "reply" /\ resp'[c] = Error("Invalid password")
                    ELSE pc'[c] = "login_insert"
      ]_vars

\* C22's case: while a session exists, one LOGIN has failed on a wrong
\* password and another on a name without an identity.
C22_Witness ==
    \E c, d \in Conns :
      /\ pc[c] = "reply" /\ req[c].action = "LOGIN"
      /\ resp[c] = Error("Invalid password")
      /\ pc[d] = "reply" /\ req[d].action = "LOGIN"
      /\ resp[d] = Error("User not found")
      /\ DOMAIN online_players \cup DOMAIN online_developers # {}

\* C23: a JOIN_ROOM that makes its capacity test on a room whose member
\* count equals room_max returns the room-full error, whoever joins (a
\* member of the room too), and leaves the room directory as it was: the
\* members, host and status of the room are unchanged.
C23_FullRoomRejectsJoin ==
    [][\A c \in Conns :
         /\ pc[c] = "join_room" /\ pc'[c] # pc[c]
         /\ req[c].roomId \in DOMAIN rooms
         /\ Len(rooms[req[c].roomId].members) = rooms[req[c].roomId].room_max
         => /\ pc'[c] = "reply"
            /\ resp'[c] = Error("Room is full")
            /\ rooms' = rooms
      ]_vars

\* C23's case: a JOIN_ROOM of a player who is not in the room has been
\* answered room-full, and the room has exactly room_max members.
C23_Witness ==
    \E c \in Conns :
      /\ pc[c] = "reply" /\ req[c].action = "JOIN_ROOM"
      /\ resp[c] = Error("Room is full")
      /\ req[c].roomId \in DOMAIN rooms
      /\ Len(rooms[req[c].roomId].members) = rooms[req[c].roomId].room_max
      /\ ~In(req[c].name, rooms[req[c].roomId].members)

\* The START_GAME of worker c is about to make its tests on an existing
\* room and one of them fails.
Rejectable(c) ==
    /\ pc[c] = "start_game"
    /\ req[c].roomId \in DOMAIN rooms
    /\ \/ req[c].name # rooms[req[c].roomId].host
       \/ Len(rooms[req[c].roomId].members) < rooms[req[c].roomId].room_min
       \/ rooms[req[c].roomId].status = "playing"

\* C24: a START_GAME whose requester is not the host, whose room has fewer
\* members than room_min or whose room is playing is rejected with an
\* error, and the rejection leaves the room directory (the status too),
\* the port counter and the match registry unchanged and spawns no
\* process; no other START_GAME is rejected by the tests.
C24_RejectedStartChangesNothing ==
    [][\A c \in Conns :
         /\ Rejectable(c) /\ pc'[c] # pc[c]
              => /\ pc'[c] = "reply"
                 /\ resp'[c].success = FALSE
         /\ pc[c] = "start_game" /\ pc'[c] = "reply"
              => /\ Rejectable(c)
                 /\ rooms' = rooms
                 /\ next_game_port' = next_game_port
                 /\ games' = games
                 /\ procs' = procs
                 /\ allocated' = allocated
      ]_vars

\* C24's case: a START_GAME has been rejected on a room whose match is
\* running, and the room is still playing with its Match entry and process.
C24_Witness ==
    \E c \in Conns :
      /\ StartReplied(c) /\ ~resp[c].success
      /\ req[c].roomId \in DOMAIN rooms
      /\ rooms[req[c].roomId].status = "playing"
      /\ req[c].roomId \in DOMAIN games
      /\ games[req[c].roomId].port \in DOMAIN procs
      /\ next_game_port = games[req[c].roomId].port + 1

\* C25: a START_GAME on an existing room whose requester is not the room's
\* host at the time of the tests fails with the only-host error, whatever
\* the member count and the status of the room are, and a START_GAME that
\* passes the tests is the current host's: after LEAVE_ROOM has replaced
\* the host, the former host is rejected and the new host can start.
C25_OnlyHostCanStart ==
    [][\A c \in Conns :
         /\ pc[c] = "start_game" /\ pc'[c] # pc[c]
              /\ req[c].roomId \in DOMAIN rooms
              /\ req[c].name # rooms[req[c].roomId].host
              => /\ pc'[c] = "reply"
                 /\ resp'[c] = Error("Only host can start the game\n")
         /\ pc[c] = "start_game" /\ pc'[c] = "start_spawn"
              => req[c].name = rooms[req[c].roomId].host
      ]_vars

\* C25's case: the player who created the room has left it, another member
\* is its host, and the creator's START_GAME has been rejected as not the
\* host's.
C25_Witness ==
    \E c, d \in Conns :
      /\ pc[d] = "reply" /\ req[d].action = "CREATE_ROOM" /\ resp[d].success
      /\ resp[d].roomId \in DOMAIN rooms
      /\ rooms[resp[d].roomId].host # req[d].name
      /\ StartReplied(c)
      /\ req[c].roomId = resp[d].roomId
      /\ req[c].name = req[d].name
      /\ resp[c] = Error("Only host can start the game\n")

\* The CREATE_ROOM of worker c has returned a room id.
Created(c) == pc[c] = "reply" /\ req[c].action = "CREATE_ROOM" /\ resp[c].success

\* C26: every CREATE_ROOM that succeeds returns the value of the room
\* counter and moves the counter up by one, in one step under room_lock,
\* and nothing else moves the counter: the ids returned are strictly
\* increasing in the order of allocation and pairwise distinct, also for
\* calls under way at once; every room and every returned id is below the
\* counter, so the id of a deleted room is never given to a later room.
C26_RoomIdsAreFresh ==
    /\ [](/\ \A rid \in DOMAIN rooms : rid < next_room_id
          /\ \A c \in Conns : Created(c) => resp[c].roomId \in 1..(next_room_id - 1)
          /\ \A c, d \in Conns :
               c # d /\ Created(c) /\ Created(d) => resp[c].roomId # resp[d].roomId)
    /\ [][/\ \A c \in Conns :
               pc[c] = "create_room" /\ pc'[c] = "reply"
                 => /\ resp'[c] = [success |-> TRUE, roomId |-> next_room_id]
                    /\ next_room_id' = next_room_id + 1
                    /\ next_room_id \notin DOMAIN rooms
                    /\ DOMAIN rooms' = DOMAIN rooms \cup {next_room_id}
          /\ next_room_id' # next_room_id
               => \E c \in Conns : pc[c] = "create_room" /\ pc'[c] = "reply"
          /\ DOMAIN rooms' \subseteq DOMAIN rooms \cup {next_room_id}
         ]_vars

\* C26's case: room 1 has been deleted by the LEAVE_ROOM of its last
\* member and a CREATE_ROOM after it has returned the id 2.
C26_Witness ==
    \E c, d \in Conns :
      /\ Created(c) /\ resp[c].roomId = 2
      /\ pc[d] = "reply" /\ req[d].action = "LEAVE_ROOM" /\ req[d].roomId = 1
      /\ resp[d].success
      /\ 1 \notin DOMAIN rooms
      /\ 2 \in DOMAIN rooms

\* C27: when spawning the match process has failed after the room was set
\* to playing, START_GAME reports an error to its caller and leaves the
\* status of the room as it is.
C27_FailedSpawnIsNotCompensated ==
    [][\A c \in Conns :
         pc[c] = "start_failed" /\ pc'[c] # pc[c]
           => /\ pc'[c] = "reply"
              /\ resp'[c].success = FALSE
              /\ "error" \in DOMAIN resp'[c]
              /\ rooms' = rooms
      ]_vars

\* C28: in every reachable state, under any interleaving of the JOIN_ROOM
\* requests, no room's member list holds the same name twice.
C28_NoDuplicateMembers ==
    \A rid \in DOMAIN rooms :
      \A i, j \in 1..Len(rooms[rid].members) :
        i # j => rooms[rid].members[i] # rooms[rid].members[j]

\* C29: while a room has its Match entry, no step changes the roster the
\* entry holds: it stays the member list of the room at the launch,
\* whatever JOIN_ROOM and LEAVE_ROOM do to the room.
C29_RosterIsASnapshot ==
    [][\A rid \in DOMAIN games :
         rid \in DOMAIN games' => Roster(rid)' = Roster(rid)
      ]_vars

\* C30: the player count START_GAME passes to the match server it spawns
\* for a room is at least the room's room_min, as the member count was
\* when the call passed its tests, also when members leave or join between
\* the tests and the spawn.
C30_PlayerCountIsTheCheckedCount ==
    [][\A c \in Conns :
         /\ pc[c] = "start_spawn" /\ pc'[c] = "start_register"
         /\ req[c].roomId \in DOMAIN rooms
         => procs'[game_port[c]].players >= rooms[req[c].roomId].room_min
      ]_vars

\* The request with correlation id r is outstanding: a send_request call
\* has sent it and is still polling for its reply.
Outstanding(r) == \E t \in Callers : call[t].pc = "polling" /\ call[t].id = r

\* C31: once the send_request call for a correlation id has returned, with
\* a reply or with the timeout error, pending_requests holds no entry for
\* that id, whenever the reply arrives.
C31_NoEntryAfterReturn ==
    \A r \in 1..(next_uuid - 1) :
      ~Outstanding(r) => r \notin DOMAIN pending_requests

\* The receiver reads the first of the lobby's messages in this step.
Decoded == lobby_out # <<>> /\ lobby_out' = Tail(lobby_out)

\* C32: every message the receiver decodes is stored in pending_requests
\* under its correlation id when that id is an outstanding request's, and
\* is put on the message queue otherwise: none is dropped and none is
\* stored under an id that no outstanding request has.
C32_EveryMessageIsStoredOrQueued ==
    [][Decoded
         => LET msg == Head(lobby_out)
            IN  IF "requestId" \in DOMAIN msg /\ Outstanding(msg.requestId)
                THEN /\ pending_requests' = Put(pending_requests, msg.requestId, msg)
                     /\ message_queue' = message_queue
                ELSE /\ message_queue' = Append(message_queue, msg)
                     /\ pending_requests' = pending_requests
      ]_vars

\* C34: a REGISTER of a name that has no identity in the role's collection
\* returns {success: True} (and adds the identity); a REGISTER of a name
\* that has one returns the already-registered error; the connection stays
\* open either way.
C34_RegisterAddsOneIdentity ==
    [][\A c \in Conns :
         pc[c] = "register" /\ pc'[c] # pc[c]
           => /\ pc'[c] = "reply"
              /\ resp'[c] = IF HasIdentity(req[c].name, req[c].role)
                            THEN Error("Username already registered")
                            ELSE [success |-> TRUE]
      ]_vars

C36_LogoutEndsOwnSessionOnly ==
    [][\A c \in Conns :
         /\ pc[c] = "logout_del"
         /\ pc'[c] = "reply"
         /\ req[c].name \in DOMAIN RoleMap(req[c].role)
         => RoleMap(req[c].role)[req[c].name] = c
      ]_vars

\* C38: in every state, the host of every room is one of the room's
\* members.
C38_HostIsAMember ==
    \A rid \in DOMAIN rooms : In(rooms[rid].host, rooms[rid].members)

\* C38, amended: whenever no worker is inside leave_room's critical
\* section, the host of every room is one of the room's members.
C38_HostIsAMemberOutsideLeave ==
    room_lock = Free
      => \A rid \in DOMAIN rooms : In(rooms[rid].host, rooms[rid].members)

\* C38's case: a LEAVE_ROOM of "a" and a JOIN_ROOM of "b" have both been
\* served in room 1, the only room ever created, and "b" is its host and
\* only member.
C38_Witness ==
    \E c, d \in Conns :
      /\ room_lock = Free
      /\ next_room_id = 2
      /\ 1 \in DOMAIN rooms
      /\ rooms[1].host = "b"
      /\ rooms[1].members = <<"b">>
      /\ pc[c] = "reply" /\ req[c].action = "LEAVE_ROOM" /\ req[c].name = "a"
      /\ pc[d] = "reply" /\ req[d].action = "JOIN_ROOM" /\ req[d].name = "b"

C37_SpawnedProgramIsTheRoomsGame ==
    \A p \in DOMAIN procs :
      procs[p].room \in DOMAIN rooms
        => procs[p].program = GameServer(rooms[procs[p].room].game)

\* C35: what has been written to a connection and not read yet is a
\* sequence of whole messages and the beginning of one: every sendall but
\* the first of a message follows a sendall of the same send_message call.
C35_WholeMessages ==
    \A c \in Conns :
      /\ sock[c] # <<>> => sock[c][1].what = "length"
      /\ \A i \in 2..Len(sock[c]) :
           IF sock[c][i].what = "length"
           THEN sock[c][i - 1].what = "end"
           ELSE /\ sock[c][i - 1].by = sock[c][i].by
                /\ sock[c][i - 1].kind = sock[c][i].kind
                /\ sock[c][i - 1].what # "end"

\* C40: whenever join_game has taken the port from a queued GAME_STARTING,
\* that port is the port of the match registered for the room at that time.
C40_JoinUsesTheRunningMatch ==
    \A i \in 1..Len(joined) : joined[i].gamePort = joined[i].match

====
